---- MODULE Spec2Model ----
(***************************************************************************)
(* Render pipeline of the background-music video generator: the job state *)
(* machine (VideoPipelineService), the polling worker (VideoJobWorker),    *)
(* the job and asset endpoints that write the same tables, and the timing  *)
(* arithmetic of the FFmpeg renderer.                                      *)
(***************************************************************************)
EXTENDS Integers, Sequences, FiniteSets, TLC

\* ------------------------------------------------------------------ bounds
\* Number of jobs in the store.
NumJobs == 2
\* Tracks per video. The source hard-codes 20; the model scales it down.
NumTracks == 2
\* Provider / renderer exceptions the environment may inject in one run.
MaxFaults == 2
\* Worker process deaths in one run.
MaxCrashes == 1
\* Regenerate requests (audio and image together) in one run.
MaxRegens == 1
\* Longest clip list handed to render_video.
MaxClips == 4
\* Elapsed-time lines the external process prints during one mux.
MaxLines == 2
\* Render attempts on one job by direct calls of execute_pipeline.
MaxRenders == 1

\* Longest title list handed to _calculate_timestamps by a direct caller.
MaxTitles == 3
\* Track durations (hundredths of a second, the scale of the column) and
\* title lengths (characters) the metadata service is tried on.
MetaDurations == {50, 5999, 354050, 360000}
TitleLengths == {7, 100}

\* Alternatives stored at one position of each asset table when the select
\* requests arrive.
MaxAlternatives == 2

\* Chunks of output an OS pipe holds before a write to it blocks, and the
\* most chunks the mux process writes to one pipe.
PipeCapacity == 2
MaxOutput == 3

\* Clip durations (seconds) and crossfade lengths the renderer is tried on.
Durations == {10, 30}
Crossfades == {0, 2, 5, 7}
\* Elapsed times (seconds) a `time=` line of the external process may carry.
ElapsedTimes == {0, 5, 10}

\* Lengths of the list an LLM response may hold.
PromptCounts == {NumTracks - 1, NumTracks, NumTracks + 1}

Jobs == 1..NumJobs
Positions == 1..NumTracks

\* ---------------------------------------------------------- VideoJobStatus
PLANNED == "planned"
GENERATING_MUSIC == "generating_music"
GENERATING_IMAGE == "generating_image"
RENDERING == "rendering"
READY_FOR_EXPORT == "ready_for_export"
COMPLETED == "completed"
FAILED == "failed"
CANCELLED == "cancelled"

VideoJobStatus ==
    {PLANNED, GENERATING_MUSIC, GENERATING_IMAGE, RENDERING,
     READY_FOR_EXPORT, COMPLETED, FAILED, CANCELLED}

\* The documented chain planned -> ... -> completed.
Chain ==
    <<PLANNED, GENERATING_MUSIC, GENERATING_IMAGE, RENDERING,
      READY_FOR_EXPORT, COMPLETED>>

\* Position of a status in the chain, 0 for failed / cancelled.
Idx(s) == IF \E i \in 1..6 : Chain[i] = s
          THEN CHOOSE i \in 1..6 : Chain[i] = s
          ELSE 0

\* Statuses that have a pipeline step (the five `if` tests).
StageStatuses == {Chain[i] : i \in 1..5}

\* ------------------------------------------------------------- error texts
\* An error text is a sequence of words; None is the empty text.
None == <<>>
ConnectionTimeout == <<"Connection", "timeout">>
InvalidApiKey == <<"Invalid", "API", "key">>
RateLimitExceeded == <<"Rate", "limit", "exceeded">>
ExpectedMusicPrompts == <<"Expected", "20", "music", "prompts">>
ExpectedVisualPrompts == <<"Expected", "20", "visual", "prompts">>
ExpectedAudioTracks == <<"Expected", "20", "audio", "tracks">>
ExpectedVisuals == <<"Expected", "20", "visuals">>
NoneNotSubscriptable == <<"NoneType", "object", "is", "not", "subscriptable">>
CancelledByUser == <<"Job", "cancelled", "by", "user">>
LLMCallFailed ==
    <<"LLM", "API", "call", "failed", "Expected", "20", "prompts">>

\* Texts a provider, the renderer or the metadata service may raise.
ProviderErrors == {ConnectionTimeout, InvalidApiKey, RateLimitExceeded}

\* str.lower() on the words that occur in the texts above.
LowerWord(w) ==
    CASE w = "Connection" -> "connection"
      [] w = "Invalid" -> "invalid"
      [] w = "API" -> "api"
      [] w = "Rate" -> "rate"
      [] w = "Expected" -> "expected"
      [] w = "NoneType" -> "nonetype"
      [] w = "Job" -> "job"
      [] w = "LLM" -> "llm"
      [] OTHER -> w

\* Variant: the text is compared as recorded, without lowering.
LowerVerbatim(text) == text

Lower(text) == [i \in DOMAIN text |-> LowerWord(text[i])]

\* `marker in text` at word granularity.
Contains(text, marker) ==
    \E i \in 1..(Len(text) - Len(marker) + 1) :
        SubSeq(text, i, i + Len(marker) - 1) = marker

\* VideoJobWorker(max_retries=3), the default of the constructor and of
\* WORKER_MAX_RETRIES.
max_retries == 3

transient_errors ==
    {<<"timeout">>, <<"connection">>, <<"network">>, <<"rate", "limit">>,
     <<"503">>, <<"502">>, <<"504">>}

\* ------------------------------------------------------------------- state
VARIABLES
    status,         \* video_jobs.status, per job (committed value)
    error_message,  \* video_jobs.error_message, per job
    prompts_json,   \* <<>> (NULL) or <<#music prompts, #visual prompts>>
    audio_tracks,   \* audio_tracks rows of each job, in insertion order
    images,         \* images rows of each job, in insertion order
    pc,             \* worker position
    queue,          \* pending_jobs not yet iterated in this poll cycle
    cur,            \* job being executed, 0 if none
    stage,          \* status whose step is executing
    cache,          \* session's loaded status per job, or Expired
    loaded,         \* <<#audio rows, #image rows>> read by the render step
    should_stop,    \* the worker's stop flag
    faults,         \* exceptions the environment may still inject
    crashes,        \* worker deaths so far
    regens,         \* regenerate requests issued so far
    retries,        \* per job: retry resets performed by the worker
    entry,          \* status the current / last invocation started from
    done,           \* stages completed by the current / last invocation
    outcome,        \* how the last invocation ended
    terminated,     \* jobs that have been completed, cancelled or failed for good
    audio_in,       \* render_video argument audio_tracks
    visuals_in,     \* render_video argument visuals
    crossfade_duration, \* render_video argument
    rpc,            \* position inside render_video
    visual_timings, \* list built by _create_video_with_visuals
    current_time,   \* its running cursor
    total_duration, \* its computed total
    concat_file,    \* lines written by _create_visual_concat_file
    result,         \* what render_video returned or raised
    files,          \* what render_video created on disk and not removed
    processes,      \* external processes render_video has started
    progress,       \* values passed to progress_callback, in thousandths
    elapsed,        \* seconds of the last `time=` line read
    audio_cmd,      \* inputs and filters of the audio concatenation command
    caller_order,   \* order_index of the clips as the caller listed them
    render_tasks,   \* render_tasks rows of each job, in insertion order
    local_video_path, \* video_jobs.local_video_path, per job
    renders,        \* per job: render_video calls that returned a result
    calls,          \* provider calls made by the current / last step
    track_titles,   \* generate_metadata argument
    track_durations, \* generate_metadata argument, in hundredths of a second
    timestamps,     \* lines returned by _calculate_timestamps
    mpc,            \* position inside generate_metadata
    req,            \* select requests in progress, with their sessions
    pc2,            \* second worker process: position
    queue2,         \* its pending_jobs not yet iterated
    cur2,           \* the job it is executing, 0 if none
    stage2,         \* status whose step it is executing
    cache2,         \* its session's loaded status per job, or Expired
    has_callback,   \* whether render_video was given a progress_callback
    to_write,       \* output the mux process has still to write, per pipe
    pipe_buf,       \* output written and not yet read, per pipe
    child,          \* the mux process
    parent,         \* position of _create_video_with_visuals around Popen
    lines_read      \* lines of stderr the read loop has handled

vars ==
    <<status, error_message, prompts_json, audio_tracks, images, pc, queue,
      cur, stage, cache, loaded, should_stop, faults, crashes, regens,
      retries, entry, done, outcome, terminated, audio_in, visuals_in, crossfade_duration, rpc,
      visual_timings, current_time, total_duration, concat_file, result,
      files, processes, progress, elapsed, audio_cmd, caller_order,
      render_tasks, local_video_path, renders, calls, track_titles,
      track_durations, timestamps, mpc, req, pc2, queue2, cur2, stage2,
      cache2, has_callback, to_write, pipe_buf, child, parent, lines_read>>

storeVars == <<status, error_message, prompts_json, audio_tracks, images>>
workerVars == <<pc, queue, cur, stage, cache, loaded, should_stop>>
envVars == <<faults, crashes, regens>>
renderVars ==
    <<audio_in, visuals_in, crossfade_duration, rpc, visual_timings,
      current_time, total_duration, concat_file, result, files, processes,
      progress, elapsed, audio_cmd, caller_order>>
historyVars == <<retries, entry, done, outcome, terminated>>
taskVars == <<render_tasks, local_video_path, renders, calls>>
metadataVars == <<track_titles, track_durations, timestamps, mpc>>
requestVars == <<req>>
secondVars == <<pc2, queue2, cur2, stage2, cache2>>
muxVars == <<has_callback, to_write, pipe_buf, child, parent, lines_read>>
extVars == <<metadataVars, requestVars, secondVars, muxVars>>
coreVars == <<storeVars, workerVars, envVars, historyVars, taskVars>>

Expired == "expired"

Range(f) == {f[i] : i \in DOMAIN f}

AllExpired == [j \in Jobs |-> Expired]

\* Jobs in creation order (created_at ascending).
JobOrder == [i \in 1..NumJobs |-> i]

\* The stored prompt lists: prompts_json holds the two lengths, and prompt i
\* of a list is named by its kind and place.
MusicPrompts(pj) == [i \in 1..pj[1] |-> [kind |-> "music", n |-> i]]
VisualPrompts(pj) == [i \in 1..pj[2] |-> [kind |-> "visual", n |-> i]]

\* Variant: the loop counts from zero.
EnumerateFromZero(prompts) ==
    [k \in DOMAIN prompts |-> [i |-> k - 1, prompt |-> prompts[k]]]

\* enumerate(prompts, 1): the pairs the generation loops iterate over.
Enumerate(prompts) ==
    [k \in DOMAIN prompts |-> [i |-> k, prompt |-> prompts[k]]]

\* The provider call of one iteration of a generation loop.
ProviderCall(e) == [prompt |-> e.prompt, order_index |-> e.i]

\* The row one iteration adds: the model's column defaults apply.
NewAsset(e) ==
    [order_index |-> e.i, prompt_text |-> e.prompt, is_selected |-> TRUE,
     is_alternative |-> FALSE]

\* The calls made by the first n iterations of a generation loop, the last
\* of which may have raised.
CallsMade(prompts, n) == [k \in 1..n |-> ProviderCall(Enumerate(prompts)[k])]

\* The rows added by the first n iterations of a generation loop.
Generated(prompts, n) == [k \in 1..n |-> NewAsset(Enumerate(prompts)[k])]

\* ------------------------------------------------------------------- Init
\* Every job as create_video_job leaves it, the worker not yet polling.
InitWith(budget) ==
    /\ status = [j \in Jobs |-> PLANNED]
    /\ error_message = [j \in Jobs |-> None]
    /\ prompts_json = [j \in Jobs |-> None]
    /\ audio_tracks = [j \in Jobs |-> <<>>]
    /\ images = [j \in Jobs |-> <<>>]
    /\ pc = "idle"
    /\ queue = <<>>
    /\ cur = 0
    /\ stage = "none"
    /\ cache = AllExpired
    /\ loaded = <<0, 0>>
    /\ should_stop = FALSE
    /\ faults = budget
    /\ crashes = 0
    /\ regens = 0
    /\ retries = [j \in Jobs |-> 0]
    /\ entry = "none"
    /\ done = {}
    /\ outcome = "none"
    /\ terminated = {}
    /\ render_tasks = [j \in Jobs |-> <<>>]
    /\ local_video_path = [j \in Jobs |-> None]
    /\ renders = [j \in Jobs |-> 0]
    /\ calls = <<>>

\* No render_video call in progress.
RendererIdle ==
    /\ audio_in = <<>>
    /\ visuals_in = <<>>
    /\ crossfade_duration = 0
    /\ rpc = "idle"
    /\ visual_timings = <<>>
    /\ current_time = 0
    /\ total_duration = 0
    /\ concat_file = <<>>
    /\ result = [kind |-> "none"]
    /\ files = {}
    /\ processes = {}
    /\ progress = <<>>
    /\ elapsed = 0
    /\ audio_cmd = [inputs |-> <<>>, filters |-> <<>>]
    /\ caller_order = <<>>

\* Nothing else in progress: no metadata call, no select request, no second
\* worker process, no mux process.
MetadataIdle ==
    /\ track_titles = <<>>
    /\ track_durations = <<>>
    /\ timestamps = <<>>
    /\ mpc = "idle"

NoRequests == req = <<>>

NoSecondWorker ==
    /\ pc2 = "absent"
    /\ queue2 = <<>>
    /\ cur2 = 0
    /\ stage2 = "none"
    /\ cache2 = AllExpired

MuxIdle ==
    /\ has_callback = FALSE
    /\ to_write = [stdout |-> 0, stderr |-> 0]
    /\ pipe_buf = [stdout |-> 0, stderr |-> 0]
    /\ child = "none"
    /\ parent = "idle"
    /\ lines_read = 0

ExtIdle == MetadataIdle /\ NoRequests /\ NoSecondWorker /\ MuxIdle

Init == InitWith(MaxFaults) /\ RendererIdle /\ ExtIdle

\* ------------------------------------------------------- execute_pipeline
\* Variant: the music step assigns the status of the stage after next.
StatusAfterSkipping(stg) ==
    CASE stg = PLANNED -> GENERATING_MUSIC
      [] stg = GENERATING_MUSIC -> RENDERING
      [] stg = GENERATING_IMAGE -> RENDERING
      [] stg = RENDERING -> READY_FOR_EXPORT
      [] stg = READY_FOR_EXPORT -> COMPLETED

\* The status each step assigns before its commit.
StatusAfter(stg) ==
    CASE stg = PLANNED -> GENERATING_MUSIC
      [] stg = GENERATING_MUSIC -> GENERATING_IMAGE
      [] stg = GENERATING_IMAGE -> RENDERING
      [] stg = RENDERING -> READY_FOR_EXPORT
      [] stg = READY_FOR_EXPORT -> COMPLETED

\* Variant: the tests are chained with `elif`, so one invocation runs one step.
IfChainElif(seen, from) ==
    IF from = 1 /\ seen \in StageStatuses THEN Idx(seen) ELSE 0

\* Variant: the steps run unconditionally, from the first one.
IfChainFromFirst(seen, from) ==
    IF seen \in StageStatuses /\ from <= 5 THEN from ELSE 0

\* The chain of `if job.status == ...` tests: given the status the session
\* sees and the index of the first test not yet evaluated, the index of the
\* step that runs next, or 0 when no remaining test matches.
IfChain(seen, from) ==
    IF seen \in StageStatuses /\ Idx(seen) >= from THEN Idx(seen) ELSE 0

\* Enter the step for status s of job j; the render step reads its rows now.
EnterStep(j, s) ==
    /\ pc' = "step"
    /\ stage' = s
    /\ cache' = [cache EXCEPT ![j] = s]
    /\ loaded' = IF s = RENDERING
                 THEN <<Len(audio_tracks[j]), Len(images[j])>>
                 ELSE loaded

\* No test matches: the final commit, and the summary is returned.
ReturnSummary ==
    /\ pc' = "loop"
    /\ cache' = AllExpired
    /\ outcome' = "returned"
    /\ UNCHANGED <<stage, loaded>>

\* A step ended: status assigned and committed, rows flushed.
Commit(j) ==
    /\ status' = [status EXCEPT ![j] = StatusAfter(stage)]
    /\ pc' = "check"
    /\ cache' = AllExpired
    /\ done' = done \cup {stage}
    /\ terminated' = IF StatusAfter(stage) = COMPLETED
                     THEN terminated \cup {j} ELSE terminated
    /\ UNCHANGED <<error_message, queue, cur, stage, loaded, should_stop,
                   crashes, regens, retries, entry, outcome, renderVars,
                   extVars>>

\* Variant: the except block leaves the status of the stage that failed.
ExceptStatusKeepsStage(stg) == stg

\* The status the except block assigns.
ExceptStatus(stg) == FAILED

\* The except block: status failed, the text recorded, and the commit, which
\* also flushes the rows the failed step had added to the session.
Except(j, text, newAudio, newImages) ==
    /\ status' = [status EXCEPT ![j] = ExceptStatus(stage)]
    /\ error_message' = [error_message EXCEPT ![j] = text]
    /\ audio_tracks' = [audio_tracks EXCEPT ![j] = @ \o newAudio]
    /\ images' = [images EXCEPT ![j] = @ \o newImages]
    /\ pc' = "raised"
    /\ cache' = AllExpired
    /\ outcome' = "raised"
    /\ UNCHANGED <<prompts_json, queue, cur, stage, loaded, should_stop,
                   crashes, regens, retries, entry, done, terminated,
                   renderVars, render_tasks, local_video_path, renders,
                   extVars>>

\* The step's own commit raises. The failed flush leaves the session's
\* transaction inactive and nothing rolls it back, so the commit of the
\* except block raises as well: nothing is stored, neither the step's rows
\* and status nor the failure, and that second error leaves execute_pipeline.
CommitRaises ==
    /\ pc' = "inactive"
    /\ cache' = AllExpired
    /\ outcome' = "raised"
    /\ UNCHANGED <<storeVars, queue, cur, stage, loaded, should_stop,
                   crashes, regens, retries, entry, done, terminated,
                   renderVars, render_tasks, local_video_path, extVars>>

\* Variant: a response of any length is accepted.
ResponseAcceptedAnyLength(n) == TRUE

\* generate_music_prompts / generate_visual_prompts: the length test on the
\* list parsed from the LLM response.
ResponseAccepted(n) == n = NumTracks

\* What the LLM answers to the two requests of generate_prompts.
LLMResponse(m, v) == [music_prompts |-> m, visual_prompts |-> v]

\* Step 1, the LLM answering with m music prompts and v visual prompts.
step_1_generate_prompts(m, v) ==
    /\ pc = "step" /\ stage = PLANNED
    /\ LET asked == m = NumTracks /\ v = NumTracks IN
       /\ asked \/ faults > 0
       /\ faults' = IF asked THEN faults ELSE faults - 1
    /\ calls' = <<LLMResponse(m, v)>>
    /\ IF ResponseAccepted(m) /\ ResponseAccepted(v)
       THEN /\ prompts_json' = [prompts_json EXCEPT ![cur] = <<m, v>>]
            /\ UNCHANGED <<audio_tracks, images, render_tasks,
                           local_video_path, renders>>
            /\ Commit(cur)
       ELSE Except(cur, LLMCallFailed, <<>>, <<>>)

\* Variant: only an empty list is refused.
WrongPromptCountOnlyEmpty(prompts) == Len(prompts) = 0

\* `if len(music_prompts) != 20` and its twin for the visual prompts.
WrongPromptCount(prompts) == Len(prompts) # NumTracks

step_2_generate_music ==
    /\ pc = "step" /\ stage = GENERATING_MUSIC
    /\ UNCHANGED faults
    /\ IF prompts_json[cur] = None
       THEN Except(cur, NoneNotSubscriptable, <<>>, <<>>) /\ calls' = <<>>
       ELSE LET music_prompts == MusicPrompts(prompts_json[cur]) IN
            IF WrongPromptCount(music_prompts)
            THEN Except(cur, ExpectedMusicPrompts, <<>>, <<>>) /\ calls' = <<>>
            ELSE /\ calls' = CallsMade(music_prompts, Len(music_prompts))
                 /\ audio_tracks' =
                        [audio_tracks EXCEPT
                            ![cur] = @ \o Generated(music_prompts, Len(music_prompts))]
                 /\ UNCHANGED <<prompts_json, images, render_tasks,
                                local_video_path, renders>>
                 /\ Commit(cur)

step_3_generate_visuals ==
    /\ pc = "step" /\ stage = GENERATING_IMAGE
    /\ UNCHANGED faults
    /\ IF prompts_json[cur] = None
       THEN Except(cur, NoneNotSubscriptable, <<>>, <<>>) /\ calls' = <<>>
       ELSE LET visual_prompts == VisualPrompts(prompts_json[cur]) IN
            IF WrongPromptCount(visual_prompts)
            THEN Except(cur, ExpectedVisualPrompts, <<>>, <<>>) /\ calls' = <<>>
            ELSE /\ calls' = CallsMade(visual_prompts, Len(visual_prompts))
                 /\ images' =
                        [images EXCEPT
                            ![cur] = @ \o Generated(visual_prompts, Len(visual_prompts))]
                 /\ UNCHANGED <<prompts_json, audio_tracks, render_tasks,
                                local_video_path, renders>>
                 /\ Commit(cur)

\* output_dir / video_<job id>.mp4
OutputVideoPath(j) == <<"video", j>>

\* The record step 4 adds to the session. ffmpeg_command is not among the
\* keyword arguments and the column has no default, so it is NULL.
NewRenderTask(j) ==
    [video_job_id |-> j, ffmpeg_command |-> None,
     local_video_path |-> OutputVideoPath(j), resolution |-> "1920x1080",
     status |-> "completed"]

\* render_tasks.ffmpeg_command is NOT NULL.
SatisfiesNotNull(row) == row.ffmpeg_command # None

\* Step 4 with a renderer that returns its result.
step_4_render_video ==
    /\ pc = "step" /\ stage = RENDERING
    /\ UNCHANGED faults
    /\ calls' = <<>>
    /\ IF loaded[1] # NumTracks
       THEN Except(cur, ExpectedAudioTracks, <<>>, <<>>)
       ELSE IF loaded[2] # NumTracks
       THEN Except(cur, ExpectedVisuals, <<>>, <<>>)
       ELSE LET render_task == NewRenderTask(cur) IN
            /\ renders' = [renders EXCEPT ![cur] = @ + 1]
            /\ IF SatisfiesNotNull(render_task)
               THEN /\ render_tasks' =
                        [render_tasks EXCEPT ![cur] = Append(@, render_task)]
                    /\ local_video_path' =
                        [local_video_path EXCEPT
                            ![cur] = render_task.local_video_path]
                    /\ UNCHANGED <<prompts_json, audio_tracks, images>>
                    /\ Commit(cur)
               ELSE CommitRaises

step_5_generate_metadata ==
    /\ pc = "step" /\ stage = READY_FOR_EXPORT
    /\ UNCHANGED <<prompts_json, audio_tracks, images, faults, taskVars, extVars>>
    /\ Commit(cur)

\* A provider call (prompt service, music or visual provider at position k,
\* renderer, metadata service) raises inside the running step.
ProviderRaises(text, k) ==
    /\ pc = "step"
    /\ faults > 0
    /\ faults' = faults - 1
    /\ CASE stage = GENERATING_MUSIC ->
              /\ prompts_json[cur] # None /\ prompts_json[cur][1] = NumTracks
              /\ calls' = CallsMade(MusicPrompts(prompts_json[cur]), k)
              /\ Except(cur, text,
                        Generated(MusicPrompts(prompts_json[cur]), k - 1), <<>>)
         [] stage = GENERATING_IMAGE ->
              /\ prompts_json[cur] # None /\ prompts_json[cur][2] = NumTracks
              /\ calls' = CallsMade(VisualPrompts(prompts_json[cur]), k)
              /\ Except(cur, text, <<>>,
                        Generated(VisualPrompts(prompts_json[cur]), k - 1))
         [] stage = RENDERING ->
              /\ k = 1 /\ loaded = <<NumTracks, NumTracks>>
              /\ calls' = <<>>
              /\ Except(cur, text, <<>>, <<>>)
         [] OTHER ->
              /\ k = 1
              /\ calls' = <<>>
              /\ Except(cur, text, <<>>, <<>>)

\* After a step's commit the next `if` reloads the expired status.
NextTest ==
    /\ pc = "check"
    /\ LET k == IfChain(status[cur], Idx(stage) + 1) IN
       IF k # 0 THEN /\ EnterStep(cur, Chain[k])
                     /\ UNCHANGED outcome
                ELSE ReturnSummary
    /\ UNCHANGED <<storeVars, queue, cur, should_stop, envVars, retries,
                   entry, done, terminated, renderVars, taskVars, extVars>>

\* ---------------------------------------------------------- VideoJobWorker
\* Variant: the query selects every status that has a pipeline step.
PollFilterNonTerminal == StageStatuses

\* The statuses the poll query selects.
PollFilter == {PLANNED}

\* Variant: the loop over pending_jobs never tests the stop flag.
LoopBreaksNever(stop) == FALSE

\* `if self.should_stop: break` at the head of each iteration.
LoopBreaks(stop) == stop

\* One poll: the query, and the early return when it finds nothing.
process_pending_jobs ==
    /\ pc = "idle"
    /\ ~should_stop
    /\ LET pending_jobs == SelectSeq(JobOrder, LAMBDA j : status[j] \in PollFilter) IN
       /\ queue' = pending_jobs
       /\ pc' = IF pending_jobs = <<>> THEN "idle" ELSE "loop"
       /\ cache' = [j \in Jobs |-> IF status[j] \in PollFilter THEN status[j] ELSE Expired]
    /\ UNCHANGED <<storeVars, cur, stage, loaded, should_stop, envVars,
                   historyVars, renderVars, taskVars, extVars>>

\* The loop ran out of jobs, or breaks on the stop flag: the session is
\* closed and control is back in run().
EndCycle ==
    /\ pc = "loop"
    /\ queue = <<>> \/ LoopBreaks(should_stop)
    /\ pc' = "idle"
    /\ queue' = <<>>
    /\ cur' = 0
    /\ cache' = AllExpired
    /\ UNCHANGED <<storeVars, stage, loaded, should_stop, envVars,
                   historyVars, renderVars, taskVars, extVars>>

\* _execute_job up to the first matching test of execute_pipeline.
execute_job ==
    /\ pc = "loop" /\ queue # <<>>
    /\ ~LoopBreaks(should_stop)
    /\ LET j == Head(queue)
           seen == IF cache[j] = Expired THEN status[j] ELSE cache[j]
           k == IfChain(seen, 1)
       IN /\ cur' = j
          /\ queue' = Tail(queue)
          /\ entry' = seen
          /\ done' = {}
          /\ IF k # 0 THEN /\ EnterStep(j, Chain[k])
                          /\ outcome' = "running"
                     ELSE ReturnSummary
    /\ UNCHANGED <<storeVars, should_stop, envVars, retries, terminated,
                   renderVars, taskVars, extVars>>

\* _should_retry_job on the refreshed job.
should_retry_job(st, msg) ==
    /\ st = FAILED
    /\ \E err \in transient_errors : Contains(Lower(msg), err)

\* Variant: the reset returns the job to the stage that failed.
RetryStatusResume(failed_stage) == failed_stage

\* _schedule_retry: the status the job is reset to.
RetryStatus(failed_stage) == PLANNED

\* Variant: the reset keeps the recorded text.
RetryErrorMessageKept(msg) == msg

\* _schedule_retry: the error_message the reset assigns.
RetryErrorMessage(msg) == None

\* The worker's except branch: refresh, decide, and _schedule_retry.
HandleFailure ==
    /\ pc = "raised"
    /\ IF should_retry_job(status[cur], error_message[cur])
       THEN /\ status' = [status EXCEPT ![cur] = RetryStatus(stage)]
            /\ error_message' =
                    [error_message EXCEPT ![cur] = RetryErrorMessage(@)]
            /\ retries' = [retries EXCEPT ![cur] = @ + 1]
            /\ cache' = AllExpired
            /\ UNCHANGED terminated
       ELSE /\ cache' = [cache EXCEPT ![cur] = status[cur]]
            /\ terminated' = terminated \cup {cur}
            /\ UNCHANGED <<status, error_message, retries>>
    /\ pc' = "loop"
    /\ UNCHANGED <<prompts_json, audio_tracks, images, queue, cur, stage,
                   loaded, should_stop, envVars, entry, done, outcome,
                   renderVars, taskVars, extVars>>

\* The store raises at db.refresh(job) in the worker's except branch: the
\* exception leaves _execute_job and the loop over pending_jobs, the session
\* is closed, and run() logs it and sleeps.
refresh_raises ==
    /\ pc = "raised"
    /\ faults > 0
    /\ faults' = faults - 1
    /\ pc' = "idle"
    /\ queue' = <<>>
    /\ cur' = 0
    /\ cache' = AllExpired
    /\ UNCHANGED <<storeVars, stage, loaded, should_stop, crashes, regens,
                   historyVars, renderVars, taskVars, extVars>>

\* db.refresh(job) in the worker's except branch on a session whose
\* transaction is inactive: it raises, with the same way out as above.
refresh_inactive ==
    /\ pc = "inactive"
    /\ pc' = "idle"
    /\ queue' = <<>>
    /\ cur' = 0
    /\ cache' = AllExpired
    /\ UNCHANGED <<storeVars, stage, loaded, should_stop, envVars,
                   historyVars, renderVars, taskVars, extVars>>

\* SIGTERM or SIGINT: the handler sets the flag and returns.
handle_shutdown ==
    /\ ~should_stop
    /\ pc # "stopped"
    /\ should_stop' = TRUE
    /\ UNCHANGED <<storeVars, pc, queue, cur, stage, cache, loaded, envVars,
                   historyVars, renderVars, taskVars, extVars>>

\* run(): the `while not self.should_stop` test fails and run returns.
run_exits ==
    /\ pc = "idle"
    /\ should_stop
    /\ pc' = "stopped"
    /\ UNCHANGED <<storeVars, queue, cur, stage, cache, loaded, should_stop,
                   envVars, historyVars, renderVars, taskVars, extVars>>

\* The worker process dies and is started again: the session's uncommitted
\* work is lost, the store keeps what was committed.
Restart ==
    /\ pc \in {"loop", "step", "check", "raised", "inactive"}
    /\ crashes < MaxCrashes
    /\ crashes' = crashes + 1
    /\ pc' = "idle"
    /\ queue' = <<>>
    /\ cur' = 0
    /\ cache' = AllExpired
    /\ outcome' = "crashed"
    /\ should_stop' = FALSE
    /\ UNCHANGED <<storeVars, stage, loaded, faults, regens, retries, entry,
                   done, terminated, renderVars, taskVars, extVars>>

\* ------------------------------------------------------------ job endpoints
cancel_video_job(j) ==
    /\ status[j] \notin {COMPLETED, FAILED, CANCELLED}
    /\ status' = [status EXCEPT ![j] = CANCELLED]
    /\ error_message' = [error_message EXCEPT ![j] = CancelledByUser]
    /\ terminated' = terminated \cup {j}
    /\ UNCHANGED <<prompts_json, audio_tracks, images, workerVars, envVars,
                   retries, entry, done, outcome, renderVars, taskVars, extVars>>

\* PipelineService.execute_pipeline called directly, as the service tests do,
\* on any stored job.
execute_pipeline(j) ==
    /\ pc = "idle"
    /\ renders[j] < MaxRenders
    /\ LET k == IfChain(status[j], 1) IN
       /\ cur' = j
       /\ entry' = status[j]
       /\ done' = {}
       /\ IF k # 0 THEN /\ EnterStep(j, Chain[k])
                       /\ outcome' = "running"
                  ELSE ReturnSummary
    /\ UNCHANGED <<storeVars, queue, should_stop, envVars, retries,
                   terminated, renderVars, taskVars, extVars>>

\* The direct caller receives the error.
caller_catches ==
    /\ pc \in {"raised", "inactive"}
    /\ pc' = "loop"
    /\ UNCHANGED <<storeVars, queue, cur, stage, cache, loaded, should_stop,
                   envVars, historyVars, renderVars, taskVars, extVars>>

\* ---------------------------------------------------------- asset endpoints
\* The alternative row a regenerate request adds for the row `original`.
Alternative(original) ==
    [order_index |-> original.order_index,
     prompt_text |-> original.prompt_text, is_selected |-> FALSE,
     is_alternative |-> TRUE]

\* Variant: every other selected row of the job is deselected, whatever its
\* position.
SelectWholeJob(rows, r) ==
    [i \in DOMAIN rows |->
        IF i = r THEN [rows[i] EXCEPT !.is_selected = TRUE]
        ELSE IF rows[i].is_selected
        THEN [rows[i] EXCEPT !.is_selected = FALSE]
        ELSE rows[i]]

\* The rows of one job after a select request for row r.
Select(rows, r) ==
    [i \in DOMAIN rows |->
        IF i = r THEN [rows[i] EXCEPT !.is_selected = TRUE]
        ELSE IF rows[i].order_index = rows[r].order_index /\ rows[i].is_selected
        THEN [rows[i] EXCEPT !.is_selected = FALSE]
        ELSE rows[i]]

regenerate_audio_track(j, r) ==
    /\ r \in DOMAIN audio_tracks[j]
    /\ regens < MaxRegens
    /\ regens' = regens + 1
    /\ audio_tracks' = [audio_tracks EXCEPT ![j] = Append(@, Alternative(@[r]))]
    /\ UNCHANGED <<status, error_message, prompts_json, images, workerVars,
                   faults, crashes, historyVars, renderVars, taskVars, extVars>>

select_audio_track(j, r) ==
    /\ r \in DOMAIN audio_tracks[j]
    /\ audio_tracks' = [audio_tracks EXCEPT ![j] = Select(@, r)]
    /\ UNCHANGED <<status, error_message, prompts_json, images, workerVars,
                   envVars, historyVars, renderVars, taskVars, extVars>>

regenerate_image(j, r) ==
    /\ r \in DOMAIN images[j]
    /\ regens < MaxRegens
    /\ regens' = regens + 1
    /\ images' = [images EXCEPT ![j] = Append(@, Alternative(@[r]))]
    /\ UNCHANGED <<status, error_message, prompts_json, audio_tracks,
                   workerVars, faults, crashes, historyVars, renderVars, taskVars, extVars>>

select_image(j, r) ==
    /\ r \in DOMAIN images[j]
    /\ images' = [images EXCEPT ![j] = Select(@, r)]
    /\ UNCHANGED <<status, error_message, prompts_json, audio_tracks,
                   workerVars, envVars, historyVars, renderVars, taskVars, extVars>>

\* Row numbers a request may name: a job holds at most this many rows.
RowIds == 1..(2 * NumTracks + MaxRegens)

\* ------------------------------------------------------------ FFmpegRenderer
pipelineVars ==
    <<storeVars, workerVars, envVars, historyVars, taskVars, extVars>>

RECURSIVE SumDurations(_)
SumDurations(tracks) ==
    IF tracks = <<>> THEN 0
    ELSE tracks[1].duration_seconds + SumDurations(Tail(tracks))

\* Variant: the list is used in the caller's order.
SortedAsGiven(xs) == xs

\* sorted(xs, key=order_index) for lists whose order_index values differ.
SortedByOrderIndex(xs) ==
    [i \in 1..Len(xs) |->
        CHOOSE x \in Range(xs) :
            Cardinality({y \in Range(xs) : y.order_index < x.order_index}) = i - 1]

\* The lines _create_visual_concat_file writes: per timing a file line and a
\* duration line, then the last file once more.
CreateVisualConcatFile(timings) ==
    LET n == Len(timings) IN
    [k \in 1..(2 * n + 1) |->
        IF k = 2 * n + 1 THEN [line |-> "file", value |-> timings[n].visual_path]
        ELSE IF k % 2 = 1
        THEN [line |-> "file", value |-> timings[(k + 1) \div 2].visual_path]
        ELSE [line |-> "duration", value |-> timings[k \div 2].duration]]

\* Variant: one crossfade is subtracted per clip, not per boundary.
TotalDurationPerClip(cursor, crossfade, n) == cursor - crossfade * n

\* The total computed after the timing loop.
TotalDuration(cursor, crossfade, n) == cursor - crossfade * (n - 1)

\* Names of what render_video leaves on disk.
OutputDir == "output_dir"
TempAudio == "temp_audio"
ConcatFile == "concat_file"

\* The acrossfade filters chained over the inputs: filter i joins the output
\* of filter i - 1 (the first input for i = 1) with input i + 1.
CrossfadeChain(tracks, crossfade) ==
    [i \in 1..(Len(tracks) - 1) |->
        [left |-> IF i = 1 THEN "0:a" ELSE "filter", right |-> i + 1,
         d |-> crossfade]]

\* The command _concatenate_audio_with_crossfades runs: a plain transcode of
\* a single track, the crossfade chain otherwise.
AudioCommand(tracks, crossfade) ==
    IF Len(tracks) = 1
    THEN [inputs |-> <<tracks[1].file_path>>, filters |-> <<>>]
    ELSE [inputs |-> [i \in 1..Len(tracks) |-> tracks[i].file_path],
          filters |-> CrossfadeChain(tracks, crossfade)]

\* Variant: only the emptiness of the audio list is validated.
InvalidInputsOnlyEmpty(audio, visuals) == Len(audio) < 1

\* The two validations at the head of render_video.
InvalidInputs(audio, visuals) ==
    Len(audio) # Len(visuals) \/ Len(audio) < 1

\* The value passed to the callback for a `time=` line, in thousandths:
\* min(0.3 + (current_seconds / total_duration) * 0.7, 1.0).
ProgressOf(current_seconds, total) ==
    LET p == 300 + (current_seconds * 700) \div total
    IN IF p < 1000 THEN p ELSE 1000

\* Length of the crossfaded audio the external process muxes.
AudioLength ==
    SumDurations(audio_in) - crossfade_duration * (Len(audio_in) - 1)

\* render_video up to the first callback: validation, sorting, the output
\* directory, progress_callback(0.1).
render_video ==
    /\ rpc = "called"
    /\ IF InvalidInputs(audio_in, visuals_in)
       THEN /\ result' = [kind |-> "ValueError"]
            /\ rpc' = "done"
            /\ UNCHANGED <<audio_in, visuals_in, files, progress>>
       ELSE /\ audio_in' = SortedByOrderIndex(audio_in)
            /\ visuals_in' = SortedByOrderIndex(visuals_in)
            /\ files' = files \cup {OutputDir}
            /\ progress' = Append(progress, 100)
            /\ rpc' = "audio"
            /\ UNCHANGED result
    /\ UNCHANGED <<crossfade_duration, visual_timings, current_time,
                   total_duration, concat_file, processes, elapsed,
                   audio_cmd,
                   caller_order, pipelineVars>>

\* _concatenate_audio_with_crossfades returns the temporary file; then
\* progress_callback(0.3).
concatenate_audio ==
    /\ rpc = "audio"
    /\ audio_cmd' = AudioCommand(audio_in, crossfade_duration)
    /\ processes' = processes \cup {"audio"}
    /\ files' = files \cup {TempAudio}
    /\ progress' = Append(progress, 300)
    /\ rpc' = "timing"
    /\ UNCHANGED <<audio_in, visuals_in, crossfade_duration, visual_timings,
                   current_time, total_duration, concat_file, result, elapsed,
                   caller_order, pipelineVars>>

\* The crossfade process exits non-zero: subprocess.run(check=True) raises,
\* with the output file already opened by the process or not.
concatenate_audio_fails ==
    /\ rpc = "audio"
    /\ audio_cmd' = AudioCommand(audio_in, crossfade_duration)
    /\ processes' = processes \cup {"audio"}
    /\ \E written \in BOOLEAN :
          files' = IF written THEN files \cup {TempAudio} ELSE files
    /\ result' = [kind |-> "CalledProcessError"]
    /\ rpc' = "done"
    /\ UNCHANGED <<audio_in, visuals_in, crossfade_duration, visual_timings,
                   current_time, total_duration, concat_file, progress,
                   elapsed, caller_order, pipelineVars>>

\* One iteration of the timing loop of _create_video_with_visuals.
timing_iteration ==
    /\ rpc = "timing"
    /\ Len(visual_timings) < Len(audio_in)
    /\ LET i == Len(visual_timings) + 1
           duration == audio_in[i].duration_seconds
           start == IF i > 1 THEN current_time - crossfade_duration
                    ELSE current_time
       IN /\ visual_timings' =
                Append(visual_timings,
                       [visual_path |-> visuals_in[i].file_path,
                        start_time |-> start,
                        duration |-> duration,
                        order_index |-> visuals_in[i].order_index])
          /\ current_time' = start + duration
    /\ UNCHANGED <<audio_in, visuals_in, crossfade_duration, rpc,
                   total_duration, concat_file, result, files, processes,
                   progress, elapsed, audio_cmd,
                   caller_order, pipelineVars>>

\* After the loop: the total, the concat file, and the mux process started.
timing_done ==
    /\ rpc = "timing"
    /\ Len(visual_timings) = Len(audio_in)
    /\ total_duration' =
            TotalDuration(current_time, crossfade_duration, Len(audio_in))
    /\ concat_file' = CreateVisualConcatFile(visual_timings)
    /\ files' = files \cup {ConcatFile}
    /\ processes' = processes \cup {"mux"}
    /\ rpc' = "mux"
    /\ UNCHANGED <<audio_in, visuals_in, crossfade_duration, visual_timings,
                   current_time, result, progress, elapsed, audio_cmd,
                   caller_order, pipelineVars>>

\* The mux process prints a `time=` line carrying t elapsed seconds. A zero
\* total makes the division raise, which only the `finally` handles.
progress_line(t) ==
    /\ rpc = "mux"
    /\ Len(progress) < 2 + MaxLines
    /\ t >= elapsed /\ t <= AudioLength
    /\ elapsed' = t
    /\ IF total_duration = 0
       THEN /\ result' = [kind |-> "ZeroDivisionError"]
            /\ files' = files \ {ConcatFile}
            /\ rpc' = "done"
            /\ UNCHANGED progress
       ELSE /\ progress' = Append(progress, ProgressOf(t, total_duration))
            /\ UNCHANGED <<result, files, rpc>>
    /\ UNCHANGED <<audio_in, visuals_in, crossfade_duration, visual_timings,
                   current_time, total_duration, concat_file, processes,
                   audio_cmd,
                   caller_order, pipelineVars>>

\* The mux process exits non-zero: RuntimeError, through the `finally` that
\* removes the concat file.
mux_fails ==
    /\ rpc = "mux"
    /\ files' = files \ {ConcatFile}
    /\ result' = [kind |-> "RuntimeError"]
    /\ rpc' = "done"
    /\ UNCHANGED <<audio_in, visuals_in, crossfade_duration, visual_timings,
                   current_time, total_duration, concat_file, processes,
                   progress, elapsed, audio_cmd,
                   caller_order, pipelineVars>>

\* The mux process exits with status 0: the concat file and then the
\* temporary audio are removed, progress_callback(1.0), the dict is returned.
render_returns ==
    /\ rpc = "mux"
    /\ files' = files \ {ConcatFile, TempAudio}
    /\ progress' = Append(progress, 1000)
    /\ result' = [kind |-> "ok", duration_seconds |-> total_duration]
    /\ rpc' = "done"
    /\ UNCHANGED <<audio_in, visuals_in, crossfade_duration, visual_timings,
                   current_time, total_duration, concat_file, processes,
                   elapsed, audio_cmd,
                   caller_order, pipelineVars>>

\* ---------------------------------------------------------- specifications
Next ==
    \/ process_pending_jobs
    \/ execute_job
    \/ EndCycle
    \/ \E m, v \in PromptCounts : step_1_generate_prompts(m, v)
    \/ step_2_generate_music
    \/ step_3_generate_visuals
    \/ step_4_render_video
    \/ NextTest
    \/ \E text \in ProviderErrors, k \in Positions : ProviderRaises(text, k)
    \/ HandleFailure
    \/ refresh_inactive
    \/ Restart
    \/ \E j \in Jobs : cancel_video_job(j)

\* Worker, orchestrator, failing providers, cancellation and restarts.
Spec == Init /\ [][Next]_vars

\* Worker and orchestrator against providers that may fail max_retries + 1
\* times, nothing else interfering.
InitRetry == InitWith(max_retries + 1) /\ RendererIdle /\ ExtIdle

NextRetry ==
    \/ process_pending_jobs
    \/ execute_job
    \/ EndCycle
    \/ \E m, v \in PromptCounts : step_1_generate_prompts(m, v)
    \/ step_2_generate_music
    \/ step_3_generate_visuals
    \/ step_4_render_video
    \/ NextTest
    \/ \E text \in ProviderErrors, k \in Positions : ProviderRaises(text, k)
    \/ HandleFailure
    \/ refresh_inactive

SpecRetry == InitRetry /\ [][NextRetry]_vars

\* The steps the worker process takes by itself.
WorkerStep ==
    \/ process_pending_jobs
    \/ execute_job
    \/ EndCycle
    \/ \E m, v \in PromptCounts : step_1_generate_prompts(m, v)
    \/ step_2_generate_music
    \/ step_3_generate_visuals
    \/ step_4_render_video
    \/ NextTest
    \/ HandleFailure
    \/ refresh_inactive
    \/ run_exits

\* Worker and orchestrator with one provider failure and a termination
\* signal arriving at any time; the worker process keeps running.
InitShutdown == InitWith(1) /\ RendererIdle /\ ExtIdle

NextShutdown ==
    \/ process_pending_jobs
    \/ execute_job
    \/ EndCycle
    \/ \E m, v \in PromptCounts : step_1_generate_prompts(m, v)
    \/ step_2_generate_music
    \/ step_3_generate_visuals
    \/ step_4_render_video
    \/ NextTest
    \/ \E text \in ProviderErrors, k \in Positions : ProviderRaises(text, k)
    \/ HandleFailure
    \/ refresh_inactive
    \/ handle_shutdown
    \/ run_exits

SpecShutdown == InitShutdown /\ [][NextShutdown]_vars /\ WF_vars(WorkerStep)

\* Worker and orchestrator with failing providers and a store that may fail
\* while the worker handles a failure.
InitIsolation == InitWith(MaxFaults) /\ RendererIdle /\ ExtIdle

NextIsolation ==
    \/ process_pending_jobs
    \/ execute_job
    \/ EndCycle
    \/ \E m, v \in PromptCounts : step_1_generate_prompts(m, v)
    \/ step_2_generate_music
    \/ step_3_generate_visuals
    \/ step_4_render_video
    \/ NextTest
    \/ \E text \in ProviderErrors, k \in Positions : ProviderRaises(text, k)
    \/ HandleFailure
    \/ refresh_inactive
    \/ refresh_raises

SpecIsolation == InitIsolation /\ [][NextIsolation]_vars

\* A job as the commit of a step leaves it, or as the update endpoint sets
\* its status once the assets of the earlier stages are stored.
Snapshot(s) ==
    [prompts_json |-> IF Idx(s) >= 2 THEN <<NumTracks, NumTracks>> ELSE None,
     audio_tracks |->
        IF Idx(s) >= 3
        THEN Generated(MusicPrompts(<<NumTracks, NumTracks>>), NumTracks)
        ELSE <<>>,
     images |->
        IF Idx(s) >= 4
        THEN Generated(VisualPrompts(<<NumTracks, NumTracks>>), NumTracks)
        ELSE <<>>]

\* execute_pipeline called directly on jobs stopped at any place of the chain.
InitResume ==
    /\ status \in [Jobs -> Range(Chain)]
    /\ error_message = [j \in Jobs |-> None]
    /\ prompts_json = [j \in Jobs |-> Snapshot(status[j]).prompts_json]
    /\ audio_tracks = [j \in Jobs |-> Snapshot(status[j]).audio_tracks]
    /\ images = [j \in Jobs |-> Snapshot(status[j]).images]
    /\ pc = "idle"
    /\ queue = <<>>
    /\ cur = 0
    /\ stage = "none"
    /\ cache = AllExpired
    /\ loaded = <<0, 0>>
    /\ should_stop = FALSE
    /\ faults = MaxFaults
    /\ crashes = 0
    /\ regens = 0
    /\ retries = [j \in Jobs |-> 0]
    /\ entry = "none"
    /\ done = {}
    /\ outcome = "none"
    /\ terminated = {}
    /\ render_tasks = [j \in Jobs |-> <<>>]
    /\ local_video_path = [j \in Jobs |-> None]
    /\ renders = [j \in Jobs |-> 0]
    /\ calls = <<>>
    /\ RendererIdle
    /\ ExtIdle

NextResume ==
    \/ \E j \in Jobs : execute_pipeline(j)
    \/ \E m, v \in PromptCounts : step_1_generate_prompts(m, v)
    \/ step_2_generate_music
    \/ step_3_generate_visuals
    \/ step_4_render_video
    \/ step_5_generate_metadata
    \/ NextTest
    \/ \E text \in ProviderErrors, k \in Positions : ProviderRaises(text, k)
    \/ caller_catches
    \/ EndCycle

SpecResume == InitResume /\ [][NextResume]_vars

\* The prompts a job may hold at status s once the update endpoint has
\* replaced prompts_json: a music list or a visual list of a wrong length
\* where a step is still to read it.
StoredPrompts(s) ==
    CASE s = GENERATING_MUSIC ->
            {<<NumTracks, NumTracks>>, <<NumTracks - 1, NumTracks>>,
             <<NumTracks + 1, NumTracks>>, <<NumTracks, NumTracks - 1>>}
      [] s = GENERATING_IMAGE ->
            {<<NumTracks, NumTracks>>, <<NumTracks, NumTracks - 1>>}
      [] OTHER -> {Snapshot(s).prompts_json}

\* execute_pipeline called directly on jobs stopped at any place of the
\* chain, their stored prompts possibly replaced.
InitStored ==
    /\ status \in [Jobs -> Range(Chain)]
    /\ error_message = [j \in Jobs |-> None]
    /\ prompts_json \in [Jobs -> UNION {StoredPrompts(s) : s \in Range(Chain)}]
    /\ \A j \in Jobs : prompts_json[j] \in StoredPrompts(status[j])
    /\ audio_tracks = [j \in Jobs |-> Snapshot(status[j]).audio_tracks]
    /\ images = [j \in Jobs |-> Snapshot(status[j]).images]
    /\ pc = "idle"
    /\ queue = <<>>
    /\ cur = 0
    /\ stage = "none"
    /\ cache = AllExpired
    /\ loaded = <<0, 0>>
    /\ should_stop = FALSE
    /\ faults = MaxFaults
    /\ crashes = 0
    /\ regens = 0
    /\ retries = [j \in Jobs |-> 0]
    /\ entry = "none"
    /\ done = {}
    /\ outcome = "none"
    /\ terminated = {}
    /\ render_tasks = [j \in Jobs |-> <<>>]
    /\ local_video_path = [j \in Jobs |-> None]
    /\ renders = [j \in Jobs |-> 0]
    /\ calls = <<>>
    /\ RendererIdle
    /\ ExtIdle

SpecStored == InitStored /\ [][NextResume]_vars

\* Worker and orchestrator with one provider failure, and the asset
\* endpoints called at any time.
InitAssets == InitWith(1) /\ RendererIdle /\ ExtIdle

NextAssets ==
    \/ process_pending_jobs
    \/ execute_job
    \/ EndCycle
    \/ \E m, v \in PromptCounts : step_1_generate_prompts(m, v)
    \/ step_2_generate_music
    \/ step_3_generate_visuals
    \/ step_4_render_video
    \/ NextTest
    \/ \E text \in ProviderErrors, k \in Positions : ProviderRaises(text, k)
    \/ HandleFailure
    \/ refresh_inactive
    \/ \E j \in Jobs, r \in RowIds : regenerate_audio_track(j, r)
    \/ \E j \in Jobs, r \in RowIds : select_audio_track(j, r)
    \/ \E j \in Jobs, r \in RowIds : regenerate_image(j, r)
    \/ \E j \in Jobs, r \in RowIds : select_image(j, r)

SpecAssets == InitAssets /\ [][NextAssets]_vars

\* render_video on every clip list up to MaxClips, in ascending or descending
\* caller order, with as many images or one fewer.
Clip(i, d) == [file_path |-> i, duration_seconds |-> d, order_index |-> i]
Visual(i) == [file_path |-> i, order_index |-> i]

InitRender ==
    /\ InitWith(0)
    /\ ExtIdle
    /\ \E n \in 0..MaxClips :
       \E durs \in [1..n -> Durations] :
       \E m \in {n, n - 1} \cap (0..MaxClips) :
       \E descending \in BOOLEAN :
          /\ audio_in = [i \in 1..n |->
                IF descending THEN Clip(n + 1 - i, durs[n + 1 - i])
                ELSE Clip(i, durs[i])]
          /\ visuals_in = [i \in 1..m |->
                IF descending THEN Visual(m + 1 - i) ELSE Visual(i)]
    /\ caller_order = [i \in DOMAIN audio_in |-> audio_in[i].order_index]
    /\ crossfade_duration \in Crossfades
    /\ rpc = "called"
    /\ visual_timings = <<>>
    /\ current_time = 0
    /\ total_duration = 0
    /\ concat_file = <<>>
    /\ result = [kind |-> "none"]
    /\ files = {}
    /\ processes = {}
    /\ progress = <<>>
    /\ elapsed = 0
    /\ audio_cmd = [inputs |-> <<>>, filters |-> <<>>]

NextRender ==
    \/ render_video
    \/ concatenate_audio
    \/ concatenate_audio_fails
    \/ timing_iteration
    \/ timing_done
    \/ \E t \in ElapsedTimes : progress_line(t)
    \/ mux_fails
    \/ render_returns

SpecRender == InitRender /\ [][NextRender]_vars

\* VideoPipelineService(...) raises inside the try of _execute_job, before
\* execute_pipeline is called: the output directory cannot be created, or
\* FFmpegRenderer() does not find the ffmpeg binary. No step has run and
\* nothing was assigned or committed; the worker's except branch follows.
construct_raises ==
    /\ pc = "loop" /\ queue # <<>>
    /\ ~LoopBreaks(should_stop)
    /\ faults > 0
    /\ faults' = faults - 1
    /\ LET j == Head(queue) IN
       /\ cur' = j
       /\ queue' = Tail(queue)
       /\ entry' = IF cache[j] = Expired THEN status[j] ELSE cache[j]
    /\ done' = {}
    /\ stage' = "none"
    /\ outcome' = "raised"
    /\ pc' = "raised"
    /\ UNCHANGED <<storeVars, cache, loaded, should_stop, crashes, regens,
                   retries, terminated, renderVars, taskVars, extVars>>

\* The worker with a pipeline service whose construction may fail.
NextConstruct == Next \/ construct_raises

SpecConstruct == Init /\ [][NextConstruct]_vars

\* ------------------------------------------- concurrent select requests
\* The select requests in flight, each with a session of its own, and the
\* job whose assets they name.
Requests == {1, 2}
SelectJob == 1
Tables == {"audio_tracks", "images"}

\* Asset ids a select request may carry: the stored rows and one unknown id.
AssetIds == 1..(NumTracks + MaxAlternatives + 1)

\* The committed rows of the job in a table.
Table(t) == IF t = "audio_tracks" THEN audio_tracks[SelectJob]
            ELSE images[SelectJob]

NewRequest ==
    [pc |-> "start", table |-> "none", target |-> 0, loaded |-> <<>>,
     current |-> <<>>]

\* The first query: the asset to select, or 404.
select_begin(r, t, id) ==
    /\ req[r].pc = "start"
    /\ req' = [req EXCEPT ![r] =
            IF id \in DOMAIN Table(t)
            THEN [pc |-> "target", table |-> t, target |-> id,
                  loaded |-> [i \in {id} |-> Table(t)[id].is_selected],
                  current |-> [i \in {id} |-> Table(t)[id].is_selected]]
            ELSE [@ EXCEPT !.pc = "not_found", !.table = t, !.target = id]]
    /\ UNCHANGED <<metadataVars, secondVars, muxVars, renderVars, coreVars>>

\* The second query: every row of the same job and position, as committed
\* now; the row the session already holds keeps the values it was loaded
\* with.
select_query_position(r) ==
    /\ req[r].pc = "target"
    /\ LET rows == Table(req[r].table)
           pos == rows[req[r].target].order_index
           at == {i \in DOMAIN rows : rows[i].order_index = pos}
           Load(old) == [i \in at |-> IF i \in DOMAIN old THEN old[i]
                                      ELSE rows[i].is_selected]
       IN req' = [req EXCEPT ![r].pc = "read",
                             ![r].loaded = Load(req[r].loaded),
                             ![r].current = Load(req[r].current)]
    /\ UNCHANGED <<metadataVars, secondVars, muxVars, renderVars, coreVars>>

\* The deselect loop, on the session's objects.
Deselect(current, target) ==
    [i \in DOMAIN current |->
        IF i # target /\ current[i] THEN FALSE ELSE current[i]]

select_deselect(r) ==
    /\ req[r].pc = "read"
    /\ req' = [req EXCEPT ![r].pc = "deselected",
                          ![r].current = Deselect(@, req[r].target)]
    /\ UNCHANGED <<metadataVars, secondVars, muxVars, renderVars, coreVars>>

\* track_to_select.is_selected = True.
select_assign(r) ==
    /\ req[r].pc = "deselected"
    /\ req' = [req EXCEPT ![r].pc = "assigned",
                          ![r].current[req[r].target] = TRUE]
    /\ UNCHANGED <<metadataVars, secondVars, muxVars, renderVars, coreVars>>

\* The rows after the flush of a session: one UPDATE per object whose
\* is_selected differs from the value it was loaded with.
Flushed(rows, loadedRows, current) ==
    [i \in DOMAIN rows |->
        IF i \in DOMAIN current /\ current[i] # loadedRows[i]
        THEN [rows[i] EXCEPT !.is_selected = current[i]]
        ELSE rows[i]]

\* db.commit(), then the refresh and the response.
select_commit(r) ==
    /\ req[r].pc = "assigned"
    /\ LET rows == Flushed(Table(req[r].table), req[r].loaded, req[r].current)
       IN IF req[r].table = "audio_tracks"
          THEN /\ audio_tracks' = [audio_tracks EXCEPT ![SelectJob] = rows]
               /\ UNCHANGED images
          ELSE /\ images' = [images EXCEPT ![SelectJob] = rows]
               /\ UNCHANGED audio_tracks
    /\ req' = [req EXCEPT ![r].pc = "done"]
    /\ UNCHANGED <<status, error_message, prompts_json, workerVars, envVars,
                   historyVars, taskVars, metadataVars, secondVars, muxVars,
                   renderVars>>

\* The rows of a table once position p has MaxAlternatives alternatives and
\* the row numbered s of that position is the selected one, as regenerate and
\* select requests handled one after the other leave them.
WithAlternatives(originals, p, s) ==
    LET rows == originals \o [k \in 1..MaxAlternatives |-> Alternative(originals[p])]
    IN [i \in DOMAIN rows |->
            IF rows[i].order_index = p
            THEN [rows[i] EXCEPT !.is_selected = (i = s)]
            ELSE rows[i]]

\* A job whose assets are generated, with alternatives at one position, and
\* two select requests arriving.
InitSelect ==
    /\ status = [j \in Jobs |-> IF j = SelectJob THEN RENDERING ELSE PLANNED]
    /\ error_message = [j \in Jobs |-> None]
    /\ prompts_json = [j \in Jobs |-> Snapshot(status[j]).prompts_json]
    /\ \E p \in Positions :
       \E s \in {p} \cup ((NumTracks + 1)..(NumTracks + MaxAlternatives)) :
          /\ audio_tracks = [j \in Jobs |->
                IF j = SelectJob
                THEN WithAlternatives(Snapshot(RENDERING).audio_tracks, p, s)
                ELSE <<>>]
          /\ images = [j \in Jobs |->
                IF j = SelectJob
                THEN WithAlternatives(Snapshot(RENDERING).images, p, s)
                ELSE <<>>]
    /\ pc = "idle"
    /\ queue = <<>>
    /\ cur = 0
    /\ stage = "none"
    /\ cache = AllExpired
    /\ loaded = <<0, 0>>
    /\ should_stop = FALSE
    /\ faults = 0
    /\ crashes = 0
    /\ regens = MaxAlternatives
    /\ retries = [j \in Jobs |-> 0]
    /\ entry = "none"
    /\ done = {}
    /\ outcome = "none"
    /\ terminated = {}
    /\ render_tasks = [j \in Jobs |-> <<>>]
    /\ local_video_path = [j \in Jobs |-> None]
    /\ renders = [j \in Jobs |-> 0]
    /\ calls = <<>>
    /\ RendererIdle
    /\ MetadataIdle /\ NoSecondWorker /\ MuxIdle
    /\ req = [r \in Requests |-> NewRequest]

NextSelect ==
    \/ \E r \in Requests, t \in Tables, id \in AssetIds : select_begin(r, t, id)
    \/ \E r \in Requests : select_query_position(r)
    \/ \E r \in Requests : select_deselect(r)
    \/ \E r \in Requests : select_assign(r)
    \/ \E r \in Requests : select_commit(r)

SpecSelect == InitSelect /\ [][NextSelect]_vars

\* ------------------------------------------------- a second worker process
\* A second VideoJobWorker process on the same store, with a session of its
\* own. Its actions are those of the first worker, on its own position.

\* _process_pending_jobs of the second worker.
second_process_pending_jobs ==
    /\ pc2 = "idle"
    /\ LET pending_jobs == SelectSeq(JobOrder, LAMBDA j : status[j] \in PollFilter) IN
       /\ queue2' = pending_jobs
       /\ pc2' = IF pending_jobs = <<>> THEN "idle" ELSE "loop"
       /\ cache2' = [j \in Jobs |-> IF status[j] \in PollFilter THEN status[j] ELSE Expired]
    /\ UNCHANGED <<cur2, stage2, metadataVars, requestVars, muxVars,
                   renderVars, coreVars>>

\* The loop of the second worker ran out of jobs.
second_EndCycle ==
    /\ pc2 = "loop" /\ queue2 = <<>>
    /\ pc2' = "idle"
    /\ cur2' = 0
    /\ cache2' = AllExpired
    /\ UNCHANGED <<queue2, stage2, metadataVars, requestVars, muxVars,
                   renderVars, coreVars>>

\* _execute_job of the second worker, up to the first matching test.
second_execute_job ==
    /\ pc2 = "loop" /\ queue2 # <<>>
    /\ LET j == Head(queue2)
           seen == IF cache2[j] = Expired THEN status[j] ELSE cache2[j]
           k == IfChain(seen, 1)
       IN /\ cur2' = j
          /\ queue2' = Tail(queue2)
          /\ IF k # 0 THEN /\ pc2' = "step"
                          /\ stage2' = Chain[k]
                          /\ cache2' = [cache2 EXCEPT ![j] = Chain[k]]
                     ELSE /\ pc2' = "loop"
                          /\ cache2' = AllExpired
                          /\ UNCHANGED stage2
    /\ UNCHANGED <<metadataVars, requestVars, muxVars, renderVars, coreVars>>

\* The step's commit in the second worker's session.
second_Commit ==
    /\ status' = [status EXCEPT ![cur2] = StatusAfter(stage2)]
    /\ pc2' = "check"
    /\ cache2' = AllExpired
    /\ UNCHANGED error_message

\* The except block in the second worker's session.
second_Except(text) ==
    /\ status' = [status EXCEPT ![cur2] = ExceptStatus(stage2)]
    /\ error_message' = [error_message EXCEPT ![cur2] = text]
    /\ pc2' = "raised"
    /\ cache2' = AllExpired
    /\ UNCHANGED <<prompts_json, audio_tracks, images>>

\* One step of execute_pipeline in the second worker, its providers
\* answering as asked.
second_step ==
    /\ pc2 = "step"
    /\ CASE stage2 = PLANNED ->
              /\ prompts_json' =
                    [prompts_json EXCEPT ![cur2] = <<NumTracks, NumTracks>>]
              /\ UNCHANGED <<audio_tracks, images>>
              /\ second_Commit
         [] stage2 = GENERATING_MUSIC ->
              IF prompts_json[cur2] = None
              THEN second_Except(NoneNotSubscriptable)
              ELSE LET music_prompts == MusicPrompts(prompts_json[cur2]) IN
                   /\ audio_tracks' =
                        [audio_tracks EXCEPT
                            ![cur2] = @ \o Generated(music_prompts, Len(music_prompts))]
                   /\ UNCHANGED <<prompts_json, images>>
                   /\ second_Commit
         [] stage2 = GENERATING_IMAGE ->
              IF prompts_json[cur2] = None
              THEN second_Except(NoneNotSubscriptable)
              ELSE LET visual_prompts == VisualPrompts(prompts_json[cur2]) IN
                   /\ images' =
                        [images EXCEPT
                            ![cur2] = @ \o Generated(visual_prompts, Len(visual_prompts))]
                   /\ UNCHANGED <<prompts_json, audio_tracks>>
                   /\ second_Commit
         [] stage2 = RENDERING ->
              IF Len(audio_tracks[cur2]) # NumTracks
              THEN second_Except(ExpectedAudioTracks)
              ELSE IF Len(images[cur2]) # NumTracks
              THEN second_Except(ExpectedVisuals)
              ELSE IF SatisfiesNotNull(NewRenderTask(cur2))
              THEN /\ UNCHANGED <<prompts_json, audio_tracks, images>>
                   /\ second_Commit
              ELSE /\ pc2' = "inactive"
                   /\ cache2' = AllExpired
                   /\ UNCHANGED storeVars
         [] OTHER ->
              /\ UNCHANGED <<prompts_json, audio_tracks, images>>
              /\ second_Commit
    /\ UNCHANGED <<queue2, cur2, stage2, workerVars, envVars, historyVars,
                   taskVars, metadataVars, requestVars, muxVars, renderVars>>

\* After a step's commit the next `if` of the second worker reloads the
\* expired status.
second_NextTest ==
    /\ pc2 = "check"
    /\ LET k == IfChain(status[cur2], Idx(stage2) + 1) IN
       IF k # 0 THEN /\ pc2' = "step"
                     /\ stage2' = Chain[k]
                     /\ cache2' = [cache2 EXCEPT ![cur2] = Chain[k]]
                ELSE /\ pc2' = "loop"
                     /\ cache2' = AllExpired
                     /\ UNCHANGED stage2
    /\ UNCHANGED <<queue2, cur2, metadataVars, requestVars, muxVars,
                   renderVars, coreVars>>

\* The except branch of the second worker.
second_HandleFailure ==
    /\ pc2 \in {"raised", "inactive"}
    /\ IF pc2 = "inactive"
       THEN /\ pc2' = "idle"
            /\ queue2' = <<>>
            /\ cur2' = 0
            /\ cache2' = AllExpired
            /\ UNCHANGED <<status, error_message>>
       ELSE /\ pc2' = "loop"
            /\ IF should_retry_job(status[cur2], error_message[cur2])
               THEN /\ status' = [status EXCEPT ![cur2] = RetryStatus(stage2)]
                    /\ error_message' =
                        [error_message EXCEPT ![cur2] = RetryErrorMessage(@)]
                    /\ cache2' = AllExpired
               ELSE /\ cache2' = [cache2 EXCEPT ![cur2] = status[cur2]]
                    /\ UNCHANGED <<status, error_message>>
            /\ UNCHANGED <<queue2, cur2>>
    /\ UNCHANGED <<prompts_json, audio_tracks, images, stage2, workerVars,
                   envVars, historyVars, taskVars, metadataVars, requestVars,
                   muxVars, renderVars>>

\* Two workers started on the jobs create_video_job left.
InitTwoWorkers ==
    /\ InitWith(0) /\ RendererIdle
    /\ MetadataIdle /\ NoRequests /\ MuxIdle
    /\ pc2 = "idle"
    /\ queue2 = <<>>
    /\ cur2 = 0
    /\ stage2 = "none"
    /\ cache2 = AllExpired

NextTwoWorkers ==
    \/ process_pending_jobs
    \/ execute_job
    \/ EndCycle
    \/ \E m, v \in PromptCounts : step_1_generate_prompts(m, v)
    \/ step_2_generate_music
    \/ step_3_generate_visuals
    \/ step_4_render_video
    \/ NextTest
    \/ HandleFailure
    \/ refresh_inactive
    \/ second_process_pending_jobs
    \/ second_execute_job
    \/ second_EndCycle
    \/ second_step
    \/ second_NextTest
    \/ second_HandleFailure

SpecTwoWorkers == InitTwoWorkers /\ [][NextTwoWorkers]_vars

\* ------------------------------------------- the mux process and its pipes
\* subprocess.Popen(cmd, stdout=PIPE, stderr=PIPE): the process runs, and
\* the parent goes to the read loop if it has a callback, else to wait().
Pipes == {"stdout", "stderr"}

popen ==
    /\ parent = "start"
    /\ child' = "running"
    /\ parent' = IF has_callback THEN "reading" ELSE "waiting"
    /\ UNCHANGED <<has_callback, to_write, pipe_buf, lines_read, metadataVars,
                   requestVars, secondVars, renderVars, coreVars>>

\* The process writes a chunk to one of its pipes; the write blocks while
\* the pipe is full.
child_writes(s) ==
    /\ child = "running"
    /\ to_write[s] > 0
    /\ pipe_buf[s] < PipeCapacity
    /\ to_write' = [to_write EXCEPT ![s] = @ - 1]
    /\ pipe_buf' = [pipe_buf EXCEPT ![s] = @ + 1]
    /\ UNCHANGED <<has_callback, child, parent, lines_read, metadataVars, requestVars,
                   secondVars, renderVars, coreVars>>

\* The process has written all it had to and exits with return code rc,
\* closing its ends of the pipes.
child_exits(rc) ==
    /\ child = "running"
    /\ \A s \in Pipes : to_write[s] = 0
    /\ child' = IF rc = 0 THEN "exit0" ELSE "exit1"
    /\ UNCHANGED <<has_callback, to_write, pipe_buf, parent, lines_read, metadataVars,
                   requestVars, secondVars, renderVars, coreVars>>

\* `for line in process.stderr`: one line is read and handled.
read_stderr ==
    /\ parent = "reading"
    /\ pipe_buf.stderr > 0
    /\ pipe_buf' = [pipe_buf EXCEPT !.stderr = @ - 1]
    /\ lines_read' = lines_read + 1
    /\ UNCHANGED <<has_callback, to_write, child, parent, metadataVars,
                   requestVars, secondVars, renderVars, coreVars>>

\* The read loop ends at end of file, which the pipe reports once it is
\* empty and the process has closed it.
stderr_eof ==
    /\ parent = "reading"
    /\ pipe_buf.stderr = 0
    /\ child \in {"exit0", "exit1"}
    /\ parent' = "waiting"
    /\ UNCHANGED <<has_callback, to_write, pipe_buf, child, lines_read, metadataVars,
                   requestVars, secondVars, renderVars, coreVars>>

\* process.wait() returns when the process has exited; a non-zero return
\* code raises RuntimeError.
wait_returns ==
    /\ parent = "waiting"
    /\ child \in {"exit0", "exit1"}
    /\ parent' = IF child = "exit0" THEN "returned" ELSE "raised"
    /\ UNCHANGED <<has_callback, to_write, pipe_buf, child, lines_read, metadataVars,
                   requestVars, secondVars, renderVars, coreVars>>

\* _create_video_with_visuals about to start the mux process, with or
\* without a callback, the process having any amount of output to write.
InitMux ==
    /\ InitWith(0) /\ RendererIdle
    /\ MetadataIdle /\ NoRequests /\ NoSecondWorker
    /\ has_callback \in BOOLEAN
    /\ to_write \in [Pipes -> 0..MaxOutput]
    /\ pipe_buf = [s \in Pipes |-> 0]
    /\ child = "none"
    /\ parent = "start"
    /\ lines_read = 0

NextMux ==
    \/ popen
    \/ \E s \in Pipes : child_writes(s)
    \/ \E rc \in {0, 1} : child_exits(rc)
    \/ read_stderr
    \/ stderr_eof
    \/ wait_returns

SpecMux == InitMux /\ [][NextMux]_vars

\* ------------------------------------------------- MetadataGeneratorService
\* The decimal digits of n, most significant first.
RECURSIVE Digits(_)
Digits(n) == IF n < 10 THEN <<n>> ELSE Append(Digits(n \div 10), n % 10)

\* The format {n:02d}: at least two digits, padded with a zero.
Pad2(n) == IF n < 10 THEN <<0, n>> ELSE Digits(n)

\* The format {n:01d}.
Pad1(n) == Digits(n)

\* Variant: minutes and seconds only, whatever the time.
TimeStrMinutesOnly(t) == <<Pad2(t \div 6000), Pad2((t % 6000) \div 100)>>

\* time_str for the cursor t: the fields between the colons.
TimeStr(t) ==
    LET minutes == t \div 6000
        seconds == (t % 6000) \div 100
    IN IF minutes >= 60
       THEN <<Pad1(minutes \div 60), Pad2(minutes % 60), Pad2(seconds)>>
       ELSE <<Pad2(minutes), Pad2(seconds)>>

\* display_title, as the number of its characters.
DisplayTitle(title) == IF title > 80 THEN 80 + 3 ELSE title

\* zip(track_titles, track_durations).
Zip(xs, ys) ==
    [i \in 1..(IF Len(xs) < Len(ys) THEN Len(xs) ELSE Len(ys)) |->
        <<xs[i], ys[i]>>]

\* The loop of _calculate_timestamps over the pairs from position i on, with
\* the cursor at t.
RECURSIVE TimestampLoop(_, _, _)
TimestampLoop(pairs, i, t) ==
    IF i > Len(pairs) THEN <<>>
    ELSE <<[time_str |-> TimeStr(t), display_title |-> DisplayTitle(pairs[i][1])]>>
         \o TimestampLoop(pairs, i + 1, t + pairs[i][2])

calculate_timestamps(titles, durations) ==
    TimestampLoop(Zip(titles, durations), 1, 0)

\* generate_metadata raises ValueError on lists of different or wrong length.
generate_metadata_rejects ==
    /\ mpc = "called"
    /\ Len(track_titles) # Len(track_durations) \/ Len(track_titles) # NumTracks
    /\ mpc' = "raised"
    /\ UNCHANGED <<track_titles, track_durations, timestamps, requestVars,
                   secondVars, muxVars, renderVars, coreVars>>

\* generate_metadata: the description is built around the timestamp lines.
generate_metadata ==
    /\ mpc = "called"
    /\ Len(track_titles) = Len(track_durations)
    /\ Len(track_titles) = NumTracks
    /\ timestamps' = calculate_timestamps(track_titles, track_durations)
    /\ mpc' = "returned"
    /\ UNCHANGED <<track_titles, track_durations, requestVars, secondVars,
                   muxVars, renderVars, coreVars>>

\* _calculate_timestamps called on its own, as the service tests do, with
\* one duration per title.
calculate_timestamps_called ==
    /\ mpc = "called"
    /\ Len(track_titles) = Len(track_durations)
    /\ timestamps' = calculate_timestamps(track_titles, track_durations)
    /\ mpc' = "done"
    /\ UNCHANGED <<track_titles, track_durations, requestVars, secondVars,
                   muxVars, renderVars, coreVars>>

\* The LLM call of generate_title or generate_description fails:
\* RuntimeError, no description.
metadata_llm_fails ==
    /\ mpc = "called"
    /\ Len(track_titles) = Len(track_durations)
    /\ Len(track_titles) = NumTracks
    /\ mpc' = "raised"
    /\ UNCHANGED <<track_titles, track_durations, timestamps, requestVars,
                   secondVars, muxVars, renderVars, coreVars>>

InitMetadata ==
    /\ InitWith(0) /\ RendererIdle
    /\ NoRequests /\ NoSecondWorker /\ MuxIdle
    /\ \E n \in 0..MaxTitles :
       \E m \in {n - 1, n, n + 1} \cap (0..MaxTitles) :
          /\ track_titles \in [1..n -> TitleLengths]
          /\ track_durations \in [1..m -> MetaDurations]
    /\ timestamps = <<>>
    /\ mpc = "called"

NextMetadata ==
    \/ generate_metadata_rejects
    \/ generate_metadata
    \/ calculate_timestamps_called
    \/ metadata_llm_fails

SpecMetadata == InitMetadata /\ [][NextMetadata]_vars

\* ================================================================== claims

\* The orchestrator assigns and commits a status (a step ends or raises).
OrchestratorWrites == pc = "step" /\ pc' \in {"check", "raised"}

\* The worker performs a retry reset.
RetryReset == pc = "raised" /\ pc' = "loop" /\ retries[cur]' = retries[cur] + 1

\* The poll has just returned its list and no job of it has been started.
JustPolled == pc = "loop" /\ cur = 0

\* Job j is inside an execute_pipeline call.
Executing(j) == cur = j /\ pc \in {"step", "check", "raised", "inactive"}

Intermediate == StageStatuses \ {PLANNED}

C2_ResetToFailedStage ==
    [][RetryReset =>
        status'[cur] = stage /\ error_message'[cur] = None]_vars

\* C2 (amended): the retry reset returns the job to planned, whatever stage
\* failed, and clears the error.
C2_ResetToPlanned ==
    [][RetryReset =>
        status'[cur] = PLANNED /\ error_message'[cur] = None]_vars

\* C2 witness: after a retry reset the prompt step runs again for a job whose
\* prompts had already been generated, the failure having been in a later
\* stage.
C2_Witness ==
    /\ pc = "step" /\ stage = PLANNED
    /\ retries[cur] > 0
    /\ prompts_json[cur] # None

\* C3: no job is reset for retry more than max_retries times.
C3_RetriesBounded == \A j \in Jobs : retries[j] <= max_retries

\* C4 (as stated): every job in a status that has a pipeline step is in the
\* list the poll returns.
C4_PollCoversNonTerminal ==
    JustPolled => \A j \in Jobs : status[j] \in StageStatuses => j \in Range(queue)

\* C4 (amended): the poll returns exactly the jobs it saw in planned, and a
\* job in an intermediate status that is not being executed is neither
\* selected nor advanced: its status stays, or becomes cancelled.
C4_OnlyPlannedPolled ==
    /\ [](JustPolled =>
            \A j \in Jobs :
                /\ j \in Range(queue) <=> cache[j] = PLANNED
                /\ status[j] \in Intermediate => j \notin Range(queue))
    /\ [][\A j \in Jobs :
            (status[j] \in Intermediate /\ ~Executing(j)) =>
                /\ status'[j] \in {status[j], CANCELLED}
                /\ ~(cur' = j /\ pc' \in {"step", "check", "raised"})]_vars

\* C4 witness: a poll has returned while a job sits in an intermediate status,
\* and the job is not in the list.
C4_Witness ==
    /\ JustPolled
    /\ \E j \in Jobs : status[j] \in Intermediate /\ j \notin Range(queue)

\* C5 (as stated): one invocation performs one stage transition.
C5_OneStagePerInvocation == Cardinality(done) <= 1

\* C5 (amended): one invocation goes on from stage to stage. After the commit
\* of a step it starts the step of the status it re-reads, in the same
\* invocation, as long as that status has a step; so whenever a step is
\* running or has raised, the invocation has completed every stage from the
\* one it started at up to that step.
C5_RunsAllRemainingStages ==
    /\ [][(pc = "check" /\ pc' # "check" /\ crashes' = crashes
            /\ status[cur] \in StageStatuses) =>
                /\ pc' = "step" /\ cur' = cur
                /\ stage' = status[cur]
                /\ entry' = entry]_vars
    /\ []((cur # 0 /\ pc \in {"step", "raised", "inactive"}) =>
            done = {s \in StageStatuses :
                        Idx(entry) <= Idx(s) /\ Idx(s) < Idx(stage)})

\* C5 witness: an invocation started at planned is at its fourth step, three
\* stage transitions behind it.
C5_Witness ==
    /\ pc = "step" /\ cur # 0
    /\ outcome = "running"
    /\ entry = PLANNED
    /\ stage = RENDERING
    /\ Cardinality(done) = 3

\* C7: no job has more than NumTracks audio rows or image rows.
C7_AtMostNRows ==
    \A j \in Jobs :
        Len(audio_tracks[j]) <= NumTracks /\ Len(images[j]) <= NumTracks

\* The stages the current invocation has run or is running.
Touched ==
    done \cup (IF pc \in {"step", "raised", "inactive"} THEN {stage} ELSE {})

\* C6: an invocation that starts on a job past planned runs no step of an
\* earlier stage, and the rows of the stages already passed stay as they were:
\* NumTracks audio rows from generating_image on, NumTracks image rows from
\* rendering on, and no render for a job that starts at ready_for_export.
C6_ResumesAtCurrentStage ==
    cur # 0 =>
        /\ \A s \in Touched : Idx(entry) >= 1 /\ Idx(s) >= Idx(entry)
        /\ Idx(entry) >= 3 => Len(audio_tracks[cur]) = NumTracks
        /\ Idx(entry) >= 4 => Len(images[cur]) = NumTracks
        /\ Idx(entry) >= 5 => renders[cur] = 0

\* C6 witness: an invocation entered at generating_image has run the visuals
\* step and the render step only, the audio rows being the ones it found.
C6_Witness ==
    /\ cur # 0
    /\ entry = GENERATING_IMAGE
    /\ pc = "inactive" /\ stage = RENDERING
    /\ done = {GENERATING_IMAGE}
    /\ renders[cur] = 1
    /\ Len(audio_tracks[cur]) = NumTracks /\ Len(images[cur]) = NumTracks

\* Rows of a job selected at a position.
SelectedAt(rows, pos) ==
    {i \in DOMAIN rows : rows[i].order_index = pos /\ rows[i].is_selected}

\* C8: per job and position at most one audio row and at most one image row
\* is selected.
C8_SingleSelection ==
    \A j \in Jobs, pos \in Positions :
        /\ Cardinality(SelectedAt(audio_tracks[j], pos)) <= 1
        /\ Cardinality(SelectedAt(images[j], pos)) <= 1

\* C9: the duration render_video returns is the sum of the clip durations
\* minus one crossfade per boundary.
C9_TotalIsSumMinusOverlaps ==
    (rpc = "done" /\ result.kind = "ok") =>
        result.duration_seconds =
            SumDurations(audio_in) - crossfade_duration * (Len(audio_in) - 1)

\* Time at which the concat demuxer switches to the i-th image: the sum of
\* the duration lines written before its file line.
RECURSIVE SwitchTime(_, _)
SwitchTime(file, i) ==
    IF i <= 1 THEN 0 ELSE SwitchTime(file, i - 1) + file[2 * (i - 1)].value

\* Point at which clip i begins in the crossfaded audio.
ClipBegin(i) ==
    SumDurations(SubSeq(audio_in, 1, i - 1)) - crossfade_duration * (i - 1)

\* C10: image i is switched to at its computed start time, which is the point
\* where clip i begins in the crossfaded audio, and it is displayed for the
\* duration of clip i.
C10_SwitchAtClipBegin ==
    (rpc \in {"mux", "done"} /\ Len(concat_file) > 0) =>
        \A i \in 1..Len(audio_in) :
            /\ visual_timings[i].start_time = ClipBegin(i)
            /\ SwitchTime(concat_file, i) = visual_timings[i].start_time
            /\ concat_file[2 * i].value = audio_in[i].duration_seconds

\* C11: on a successful render_video the values passed to the progress
\* callback never decrease and the last one is 1.0.
C11_ProgressMonotone ==
    (rpc = "done" /\ result.kind = "ok") =>
        /\ \A i \in 1..(Len(progress) - 1) : progress[i] <= progress[i + 1]
        /\ progress[Len(progress)] = 1000

\* C12: render_video given lists of different lengths, or empty lists, ends
\* with ValueError having created no directory and no file and started no
\* external process.
C12_ValidatesBeforeAnyWork ==
    (rpc # "called" /\
     (Len(audio_in) # Len(visuals_in) \/ Len(audio_in) < 1)) =>
        /\ rpc = "done" /\ result.kind = "ValueError"
        /\ files = {} /\ processes = {}
        /\ concat_file = <<>> /\ progress = <<>>

\* C12 witness: a call with one image fewer than clips has raised ValueError.
C12_Witness ==
    /\ rpc = "done" /\ result.kind = "ValueError"
    /\ Len(audio_in) = 2 /\ Len(visuals_in) = 1

\* C18: when render_video has ended, by return or by exception, neither the
\* temporary audio file nor the concat file is left.
C18_TemporariesRemoved ==
    rpc = "done" => TempAudio \notin files /\ ConcatFile \notin files

\* Texts a step can raise: a provider's, or one of its own validations.
RaisedTexts ==
    ProviderErrors \cup
    {ExpectedMusicPrompts, ExpectedVisualPrompts, ExpectedAudioTracks,
     ExpectedVisuals, NoneNotSubscriptable, LLMCallFailed}

\* A step of the executing job has raised and the caller holds the error.
CallerHoldsError == pc \in {"raised", "inactive"}

\* C13: when a step raises, the invocation ends with the job failed, the
\* text of the exception recorded and committed, and the error passed on to
\* the caller; while the caller holds the error the job is failed, never in
\* the status of the stage that failed.
C13_FailureRecorded ==
    /\ [][(pc = "step" /\ CallerHoldsError') =>
            /\ status'[cur] = FAILED
            /\ error_message'[cur] \in RaisedTexts
            /\ outcome' = "raised"
            /\ cur' = cur]_vars
    /\ [](CallerHoldsError =>
            /\ status[cur] = FAILED /\ status[cur] # stage
            /\ error_message[cur] \in RaisedTexts)

\* C13 witness: the renderer raised and the job is failed with its text.
C13_Witness ==
    /\ pc = "raised" /\ stage = RENDERING
    /\ status[cur] = FAILED
    /\ error_message[cur] = InvalidApiKey

\* The error texts of the model that contain, whatever the case of their
\* letters, one of the markers.
TransientTexts == {ConnectionTimeout, RateLimitExceeded}

C15_TerminalNeverPolled ==
    [][(pc = "idle" /\ pc' = "loop") =>
        \A j \in terminated : j \notin Range(queue')]_vars

\* C16: no step is started for a job whose stored status is cancelled, and
\* starting or skipping a step leaves that status cancelled.
C16_NoStageAfterCancel ==
    [][\A j \in Jobs :
        (status[j] = CANCELLED /\ ~(cur = j /\ pc = "step")) =>
            /\ ~(cur' = j /\ pc' = "step")
            /\ status'[j] = CANCELLED]_vars

\* Job j has exactly one selected audio row and one selected image row at
\* every position, and at least one unselected alternative.
HasAlternatives(j) ==
    /\ \A pos \in Positions :
          /\ Cardinality(SelectedAt(audio_tracks[j], pos)) = 1
          /\ Cardinality(SelectedAt(images[j], pos)) = 1
    /\ \/ \E i \in DOMAIN audio_tracks[j] : audio_tracks[j][i].is_alternative
       \/ \E i \in DOMAIN images[j] : images[j][i].is_alternative

\* C17: when alternatives exist the render step loads NumTracks clips and
\* NumTracks images, the selected ones.
C17_RenderLoadsSelectedOnly ==
    [][(pc = "check" /\ pc' = "step" /\ stage' = RENDERING
        /\ HasAlternatives(cur)) =>
            loaded' = <<NumTracks, NumTracks>>]_vars

C20_FailureIsolated ==
    [][(pc = "raised" /\ queue # <<>>) =>
        pc' = "loop" /\ queue' = queue /\ cur' = cur]_vars

\* C21: with one clip and one image no crossfade filter is built, the clip
\* is the only input of a plain transcode, and the duration returned is the
\* clip's duration_seconds whatever the crossfade value.
C21_SingleClipNoCrossfade ==
    Len(audio_in) = 1 =>
        /\ ("audio" \in processes =>
                /\ audio_cmd.filters = <<>>
                /\ audio_cmd.inputs = <<audio_in[1].file_path>>)
        /\ (rpc \in {"mux", "done"} /\ Len(visual_timings) = 1 =>
                /\ total_duration = audio_in[1].duration_seconds
                /\ visual_timings[1].start_time = 0)
        /\ (rpc = "done" /\ result.kind = "ok" =>
                result.duration_seconds = audio_in[1].duration_seconds)

\* C21 witness: a single 30-second clip rendered with a 5-second crossfade
\* value.
C21_Witness ==
    /\ rpc = "done" /\ result.kind = "ok"
    /\ Len(audio_in) = 1 /\ Len(visuals_in) = 1
    /\ audio_in[1].duration_seconds = 30
    /\ crossfade_duration = 5

\* C22: whatever order the caller listed them in, the clips and images are
\* processed in ascending order_index: the k-th input of the audio command,
\* the k-th timing and the k-th image of the concat file are those of
\* position k, and the k-th image has the order_index of the k-th clip.
C22_CallerOrderIrrelevant ==
    (rpc \notin {"called", "audio"} /\ result.kind # "ValueError") =>
        /\ \A k \in 1..Len(audio_in) :
              /\ audio_in[k].order_index = k
              /\ visuals_in[k].order_index = k
              /\ audio_cmd.inputs[k] = k
        /\ \A k \in 1..Len(visual_timings) :
              /\ visual_timings[k].order_index = audio_in[k].order_index
              /\ visual_timings[k].visual_path = k
              /\ visual_timings[k].duration = audio_in[k].duration_seconds
        /\ (concat_file # <<>> =>
              \A k \in 1..Len(audio_in) : concat_file[2 * k - 1].value = k)

\* C22 witness: a render of three clips the caller listed in descending
\* order has returned.
C22_Witness ==
    /\ rpc = "done" /\ result.kind = "ok"
    /\ caller_order = <<3, 2, 1>>
    /\ audio_cmd.inputs = <<1, 2, 3>>
    /\ progress # <<>> /\ Len(concat_file) = 7

\* new is old with some row r made selected, every other row at the position
\* of r deselected, and nothing else changed.
SelectFrame(old, new) ==
    /\ DOMAIN new = DOMAIN old
    /\ \E r \in DOMAIN old :
        /\ new[r] = [old[r] EXCEPT !.is_selected = TRUE]
        /\ \A i \in DOMAIN old \ {r} :
              IF old[i].order_index = old[r].order_index
              THEN new[i] = [old[i] EXCEPT !.is_selected = FALSE]
              ELSE new[i] = old[i]

\* Row r is the one selected row at its position.
SoleSelected(rows, r) ==
    SelectedAt(rows, rows[r].order_index) = {r}

\* C23: a select request makes its row selected and the other rows of that
\* job and position unselected, and changes no row of another position or
\* job and nothing in the other table; selecting the row that is already the
\* selected one changes nothing, as does repeating a select.
C23_SelectFrame ==
    /\ [][\A j \in Jobs :
            /\ (audio_tracks'[j] # audio_tracks[j] /\
                 Len(audio_tracks'[j]) = Len(audio_tracks[j])) =>
                    /\ SelectFrame(audio_tracks[j], audio_tracks'[j])
                    /\ images' = images
                    /\ \A k \in Jobs \ {j} :
                          audio_tracks'[k] = audio_tracks[k]
            /\ (images'[j] # images[j] /\
                 Len(images'[j]) = Len(images[j])) =>
                    /\ SelectFrame(images[j], images'[j])
                    /\ audio_tracks' = audio_tracks
                    /\ \A k \in Jobs \ {j} : images'[k] = images[k]]_vars
    /\ [](\A j \in Jobs :
            /\ \A r \in DOMAIN audio_tracks[j] :
                  LET rows == audio_tracks[j] IN
                  /\ Select(Select(rows, r), r) = Select(rows, r)
                  /\ SoleSelected(rows, r) => Select(rows, r) = rows
            /\ \A r \in DOMAIN images[j] :
                  LET rows == images[j] IN
                  /\ Select(Select(rows, r), r) = Select(rows, r)
                  /\ SoleSelected(rows, r) => Select(rows, r) = rows)

\* C23 witness: an alternative has been selected in place of the original of
\* its position, which is now unselected, while another position of the job
\* keeps its selected row.
C23_Witness ==
    \E j \in Jobs :
        LET rows == audio_tracks[j] IN
        \E a, o, x \in DOMAIN rows :
            /\ rows[a].is_alternative /\ rows[a].is_selected
            /\ ~rows[o].is_alternative /\ ~rows[o].is_selected
            /\ rows[o].order_index = rows[a].order_index
            /\ rows[x].order_index # rows[a].order_index
            /\ rows[x].is_selected

\* C24: while no provider call raises and the worker is not told to stop,
\* every job, created planned, is eventually completed with local_video_path
\* set to the rendered file.
C24_EventuallyCompleted ==
    [](pc # "raised" /\ ~should_stop) =>
        \A j \in Jobs :
            <>(status[j] = COMPLETED /\ local_video_path[j] = OutputVideoPath(j))

\* The render step of the executing job ends, render_video having returned.
RenderReturned ==
    pc = "step" /\ stage = RENDERING /\ renders'[cur] = renders[cur] + 1

\* C26: when the render step ends after render_video returned, a RenderTask
\* row is stored with a non-null ffmpeg_command, the output path, the
\* resolution and status completed, and the job is ready_for_export with that
\* path.
C26_RenderTaskCommitted ==
    [][RenderReturned =>
        LET rows == render_tasks'[cur] IN
        /\ Len(rows) = Len(render_tasks[cur]) + 1
        /\ rows[Len(rows)].ffmpeg_command # None
        /\ rows[Len(rows)].local_video_path = OutputVideoPath(cur)
        /\ rows[Len(rows)].resolution = "1920x1080"
        /\ rows[Len(rows)].status = "completed"
        /\ status'[cur] = READY_FOR_EXPORT
        /\ local_video_path'[cur] = OutputVideoPath(cur)]_vars

\* C27: a job has as many RenderTask rows as render_video calls that
\* returned for it; a render step that raises adds no row and leaves
\* local_video_path; and a local_video_path that is set is the path of the
\* job's last RenderTask row, which is completed.
C27_OneTaskPerRender ==
    /\ [](\A j \in Jobs :
            /\ Len(render_tasks[j]) = renders[j]
            /\ local_video_path[j] # None =>
                  /\ render_tasks[j] # <<>>
                  /\ LET last == render_tasks[j][Len(render_tasks[j])] IN
                     /\ last.status = "completed"
                     /\ last.local_video_path = local_video_path[j])
    /\ [][(pc = "step" /\ stage = RENDERING /\ pc' = "raised") =>
            /\ render_tasks' = render_tasks
            /\ local_video_path' = local_video_path]_vars

\* C25: a job that is cancelled while a step of it is executing is still
\* cancelled when that step ends, by commit or by exception. The steps
\* looked at are those after the first of an invocation: they were entered
\* on a freshly read status, so the cancellation came during the step.
C25_CancelDuringStageSticks ==
    [][\A j \in Jobs :
        (cur = j /\ pc = "step" /\ done # {} /\ status[j] = CANCELLED) =>
            status'[j] = CANCELLED]_vars

\* The answer recorded for the prompt step has a list of a wrong length.
WrongLengthResponse(cs) ==
    /\ Len(cs) = 1
    /\ cs[1].music_prompts # NumTracks \/ cs[1].visual_prompts # NumTracks

\* C28: a prompt step whose LLM answer holds a music list or a visual list
\* of a length other than NumTracks ends with the job failed, no prompts
\* stored and the invocation over; so stored prompts always have NumTracks
\* entries of each kind, and music and visual provider calls are only made
\* for jobs with such prompts.
C28_WrongLengthFailsPromptStage ==
    /\ [][(pc = "step" /\ stage = PLANNED /\ pc' \in {"check", "raised"}
            /\ WrongLengthResponse(calls')) =>
                /\ pc' = "raised"
                /\ status'[cur] = FAILED
                /\ error_message'[cur] = LLMCallFailed
                /\ prompts_json' = prompts_json
                /\ audio_tracks' = audio_tracks /\ images' = images]_vars
    /\ [](\A j \in Jobs :
            prompts_json[j] # None => prompts_json[j] = <<NumTracks, NumTracks>>)
    /\ []((pc = "raised" /\ stage = PLANNED
            /\ error_message[cur] = LLMCallFailed) =>
                ~should_retry_job(status[cur], error_message[cur]))

\* C28 witness: the LLM answered with a music list one short; the job is
\* failed with nothing stored and no track generated.
C28_Witness ==
    /\ pc = "raised" /\ stage = PLANNED
    /\ calls = <<LLMResponse(NumTracks - 1, NumTracks)>>
    /\ status[cur] = FAILED /\ error_message[cur] = LLMCallFailed
    /\ prompts_json[cur] = None
    /\ audio_tracks[cur] = <<>>

\* C29: a music step that finds a stored music prompt list of a length other
\* than NumTracks raises at once: no provider call, no audio row, the job
\* failed with the validation's text and not generating_image.
C29_WrongStoredCountRaisesFirst ==
    [][(pc = "step" /\ stage = GENERATING_MUSIC /\ pc' \notin {"step", "idle"}
         /\ prompts_json[cur] # None /\ prompts_json[cur][1] # NumTracks) =>
            /\ pc' = "raised"
            /\ calls' = <<>>
            /\ audio_tracks' = audio_tracks
            /\ status'[cur] = FAILED
            /\ error_message'[cur] = ExpectedMusicPrompts]_vars

\* C29 witness: a job at generating_music with one stored music prompt too
\* few has been failed by the validation, without any audio row.
C29_Witness ==
    /\ pc = "raised" /\ stage = GENERATING_MUSIC
    /\ prompts_json[cur] = <<NumTracks - 1, NumTracks>>
    /\ error_message[cur] = ExpectedMusicPrompts
    /\ status[cur] = FAILED
    /\ audio_tracks[cur] = <<>> /\ calls = <<>>

\* The prompts the running generation step iterates over.
StagePrompts ==
    IF stage = GENERATING_MUSIC THEN MusicPrompts(prompts_json[cur])
    ELSE VisualPrompts(prompts_json[cur])

\* The rows of the running generation step's table.
StageRows(a, i) == IF stage = GENERATING_MUSIC THEN a[cur] ELSE i[cur]

\* C30: when a generation step ends, the provider calls it made are calls
\* 1, 2, ... in this order, call i with prompt i and order_index i; the rows
\* it added are rows 1, 2, ... with order_index i and prompt_text prompt i,
\* one per call that returned; and the status is the next stage's only if
\* all NumTracks calls were made and all NumTracks rows added, failed
\* otherwise.
C30_CallsInPositionOrder ==
    [][(pc = "step" /\ stage \in {GENERATING_MUSIC, GENERATING_IMAGE}
         /\ pc' \in {"check", "raised"} /\ prompts_json[cur] # None) =>
        LET old == StageRows(audio_tracks, images)
            new == StageRows(audio_tracks', images')
            added == SubSeq(new, Len(old) + 1, Len(new))
        IN /\ SubSeq(new, 1, Len(old)) = old
           /\ Len(calls') <= NumTracks
           /\ \A i \in DOMAIN calls' :
                 /\ calls'[i].order_index = i
                 /\ calls'[i].prompt = StagePrompts[i]
           /\ \A i \in DOMAIN added :
                 /\ added[i].order_index = i
                 /\ added[i].prompt_text = calls'[i].prompt
           /\ IF pc' = "check"
              THEN /\ status'[cur] = StatusAfter(stage)
                   /\ Len(calls') = NumTracks /\ Len(added) = NumTracks
              ELSE /\ status'[cur] = FAILED
                   /\ Len(calls') < NumTracks => Len(added) = Len(calls') - 1
                                                   \/ calls' = <<>>]_vars

\* C30 witness: the visuals step has ended after NumTracks calls, and image
\* i is at the position of audio track i.
C30_Witness ==
    /\ pc = "check" /\ stage = GENERATING_IMAGE
    /\ Len(calls) = NumTracks
    /\ calls[NumTracks].order_index = NumTracks
    /\ Len(images[cur]) = NumTracks /\ Len(audio_tracks[cur]) = NumTracks
    /\ \A i \in Positions :
          /\ images[cur][i].order_index = audio_tracks[cur][i].order_index
          /\ images[cur][i].prompt_text = [kind |-> "visual", n |-> i]

\* C31: the total the mux step divides by is positive, and every value
\* reported for a `time=` line lies between 0.3 and 1.0.
C31_ProgressInRange ==
    (rpc \in {"mux", "done"} /\ Len(progress) >= 2) =>
        /\ total_duration > 0
        /\ \A i \in 3..Len(progress) :
              300 <= progress[i] /\ progress[i] <= 1000

\* A step of the worker loop itself: the poll, the loop over the jobs, the
\* handling of a failed execution.
WorkerLoopStep ==
    pc \in {"idle", "loop", "raised", "inactive"} /\ <<pc, queue, cur>>' # <<pc, queue, cur>>

C34_FailedStageAddsNoRows ==
    [][(pc = "step" /\ stage \in {GENERATING_MUSIC, GENERATING_IMAGE}
         /\ pc' = "raised") =>
            /\ audio_tracks' = audio_tracks
            /\ images' = images
            /\ prompts_json' = prompts_json]_vars


\* The sum of the first n durations.
RECURSIVE SumFirst(_, _)
SumFirst(durs, n) == IF n = 0 THEN 0 ELSE SumFirst(durs, n - 1) + durs[n]

\* The number a digit string denotes.
RECURSIVE Number(_)
Number(ds) ==
    IF ds = <<>> THEN 0
    ELSE 10 * Number(SubSeq(ds, 1, Len(ds) - 1)) + ds[Len(ds)]

\* The whole seconds a time_str denotes.
SecondsOf(ts) ==
    IF Len(ts) = 3
    THEN 3600 * Number(ts[1]) + 60 * Number(ts[2]) + Number(ts[3])
    ELSE 60 * Number(ts[1]) + Number(ts[2])

\* MM:SS below 60 minutes, H:MM:SS with unpadded hours from 60 minutes on.
WellFormatted(ts, secs) ==
    IF secs < 3600
    THEN /\ Len(ts) = 2
         /\ Len(ts[1]) = 2 /\ Len(ts[2]) = 2
         /\ Number(ts[2]) < 60
    ELSE /\ Len(ts) = 3
         /\ ts[1][1] # 0
         /\ Len(ts[2]) = 2 /\ Len(ts[3]) = 2
         /\ Number(ts[2]) < 60 /\ Number(ts[3]) < 60

\* C33: the timestamp of track i is the sum of the durations of the tracks
\* before it, with no crossfade adjustment, truncated to whole seconds,
\* written MM:SS below 60 minutes and H:MM:SS from 60 minutes on; the first
\* track is at 00:00, there is one line per track, and the timestamps never
\* decrease.
C33_TimestampsAccumulate ==
    mpc \in {"done", "returned"} =>
        /\ Len(timestamps) = Len(track_durations)
        /\ \A i \in DOMAIN timestamps :
            LET secs == SumFirst(track_durations, i - 1) \div 100 IN
            /\ SecondsOf(timestamps[i].time_str) = secs
            /\ WellFormatted(timestamps[i].time_str, secs)
        /\ timestamps # <<>> =>
                timestamps[1].time_str = <<<<0, 0>>, <<0, 0>>>>
        /\ \A i \in 1..(Len(timestamps) - 1) :
                SecondsOf(timestamps[i].time_str)
                    <= SecondsOf(timestamps[i + 1].time_str)

\* C33 witness: three lines, the second below the hour at 59:00 after a
\* track of 3540.50 seconds, the third past it at 1:59:00.
C33_Witness ==
    /\ mpc = "done"
    /\ Len(timestamps) = 3
    /\ track_durations = <<354050, 360000, 5999>>
    /\ timestamps[2].time_str = <<<<5, 9>>, <<0, 0>>>>
    /\ timestamps[3].time_str = <<<<1>>, <<5, 9>>, <<0, 0>>>>

\* The worker's except branch ends for the job it had started: control is
\* back in the loop, or the error left the cycle.
WorkerHandled ==
    /\ pc \in {"raised", "inactive"}
    /\ pc' \in {"loop", "idle"}
    /\ crashes' = crashes

\* C36: after the worker has handled an execution that raised, the
\* construction of the pipeline service included, the job is either failed
\* with a message recorded, or planned with its error cleared by a retry
\* reset; it is never left planned without that decision.
C36_FailedOrRetried ==
    [][WorkerHandled =>
        \/ /\ status'[cur] = FAILED
           /\ error_message'[cur] # None
        \/ /\ status'[cur] = PLANNED
           /\ error_message'[cur] = None
           /\ retries'[cur] = retries[cur] + 1]_vars

\* Two select requests have finished that named different assets of the
\* same table, job and position.
BothSelected(t, p) ==
    /\ \A r \in Requests : req[r].pc = "done" /\ req[r].table = t
    /\ req[1].target # req[2].target
    /\ \A r \in Requests : Table(t)[req[r].target].order_index = p

\* C35: once two concurrent select requests for two different assets at the
\* same job and position have both finished, exactly one asset at that
\* position is selected, whatever the interleaving of their steps.
C35_OneSelectedAfterBoth ==
    req # <<>> =>
        \A t \in Tables, p \in Positions :
            BothSelected(t, p) => Cardinality(SelectedAt(Table(t), p)) = 1

\* C37: with two worker processes polling the same store, no job is being
\* executed by both: a job one worker has started to execute is not selected
\* and executed by the other.
C37_NoJobExecutedByBoth ==
    \A j \in Jobs :
        ~ /\ cur = j /\ pc \in {"step", "check"}
          /\ cur2 = j /\ pc2 \in {"step", "check"}

\* The mux process has output left and every pipe it has output for is full,
\* while the parent reads none of them: it waits for the exit, or it is in
\* the read loop with nothing to read on stderr.
MuxBlocked ==
    /\ child = "running"
    /\ \E s \in Pipes : to_write[s] > 0
    /\ \A s \in Pipes : to_write[s] > 0 => pipe_buf[s] = PipeCapacity
    /\ \/ parent = "waiting"
       \/ parent = "reading" /\ pipe_buf.stderr = 0

\* C38: the mux step never deadlocks: whatever the process writes to its
\* pipes, with or without a progress callback, the parent and the process
\* are never both blocked, so the wait completes.
C38_MuxNeverBlocks == ~MuxBlocked
====
